---- MODULE Spec2Model ----
(***************************************************************************)
(* A model of the dashboard's AppComponent (src/src/app/app.component.ts): *)
(* the two row snapshots, the filter / sort state, the loads in flight and *)
(* the view computed from them.                                            *)
(*                                                                         *)
(* JavaScript values are modelled with their runtime type: a number is     *)
(* [t |-> "number", v |-> n], a string is [t |-> "string", v |-> s] with s *)
(* the sequence of its characters, and undefined is [t |-> "undefined"].   *)
(* A row is a record from property names to such values; an optional       *)
(* property that is not set is absent from the record's domain.            *)
(***************************************************************************)
EXTENDS Integers, Sequences, FiniteSets, TLC

VARIABLES
  selectedSport,        \* AppComponent.selectedSport
  searchTerm,           \* AppComponent.searchTerm (a sequence of characters)
  sortBy,               \* AppComponent.sortBy (a property name)
  sortDirection,        \* AppComponent.sortDirection
  selectedSeasonType,   \* AppComponent.selectedSeasonType
  selectedLeagueSeason, \* AppComponent.selectedLeagueSeason
  selectedOwner,        \* AppComponent.selectedOwner (a sequence of characters)
  isLoading,            \* AppComponent.isLoading
  nhlData,              \* nhlDataSubject.value
  nflData,              \* nflDataSubject.value
  pending,              \* the http requests subscribed to and not yet completed
  issued,               \* how many requests have been issued so far
  view,                 \* what the last call of getCurrentData returned
  started,              \* whether ngOnInit has run
  lastCall,             \* the call that ran last, with what it was called on
  returned,             \* what the call that ran last returned: <<>> unless it
                        \* is a reporting method other than getCurrentData
  fantasyTeams,         \* the older AppComponent's fantasyTeams (src/unnamed/part_002)
  positionFilter,       \* DraftBoardComponent.positionFilter (a sequence of characters)
  showDialog,           \* FantasyTeamComponent.showDialog
  dialogElement,        \* FantasyTeamComponent.dialogElement: an overlay, or 0 for null
  documentBody,         \* the overlays appended to document.body and not removed
  overlays,             \* how many overlays createDialog has created so far
  sleeper_rosters,      \* the rows of the table sleeper_rosters
  rosters,              \* seedDatabase: the rosters fetched by the run
  seedAt,               \* seedDatabase: the statement the run awaits next
  cursor,               \* seedDatabase: the position of the insert loop in rosters
  serial,               \* the last value of the sequence behind sleeper_rosters.id
  exitCode,             \* the exit code of the seeding process, or -1 while it runs
  deleted               \* the rows the DELETE of the run removed

\* the state of AppComponent, of FantasyTeamComponent with the document, and
\* of the seeding script with its table
appVars ==
  <<selectedSport, searchTerm, sortBy, sortDirection, selectedSeasonType,
    selectedLeagueSeason, selectedOwner, isLoading, nhlData, nflData, pending,
    issued, view, started, fantasyTeams>>

dialogVars == <<showDialog, dialogElement, documentBody, overlays>>

seedVars == <<sleeper_rosters, rosters, seedAt, cursor, serial, exitCode, deleted>>

\* the state of the components and of the script next to AppComponent
siblings == <<positionFilter, dialogVars, seedVars>>

vars ==
  <<selectedSport, searchTerm, sortBy, sortDirection, selectedSeasonType,
    selectedLeagueSeason, selectedOwner, isLoading, nhlData, nflData, pending,
    issued, view, started, lastCall, returned, fantasyTeams, siblings>>

----------------------------------------------------------------------------
(* Bounds of the model *)

\* longest snapshot drawn for the view specification
MaxRows == 3
\* longest player snapshot drawn for the roster specification
MaxRosterRows == 2

\* largest games_count, wins, losses and yet_to_play of the team rows drawn
\* for the win percentage
MaxGames == 2

\* longest response body delivered to a load
MaxFetchRows == 1
\* longest list of rosters the Sleeper API answers with
MaxRosters == 2
\* how many overlays createDialog creates in one run
MaxOverlays == 6
\* how many rows more than the slice of getAvailablePlayers takes the longest
\* draft board input holds
MaxExcess == 3
\* how many requests the component issues in one run
MaxLoads == 3

----------------------------------------------------------------------------
(* JavaScript strings: code units, toLowerCase, includes, the < of strings *)

Upper == <<"A", "B", "C", "D", "E", "F", "G", "H", "I", "J", "K", "L", "M", "N", "O", "P", "Q", "R", "S", "T", "U", "V", "W", "X", "Y", "Z">>
Lower == <<"a", "b", "c", "d", "e", "f", "g", "h", "i", "j", "k", "l", "m", "n", "o", "p", "q", "r", "s", "t", "u", "v", "w", "x", "y", "z">>
Digits == <<"0", "1", "2", "3", "4", "5", "6", "7", "8", "9">>

IndexIn(c, table) == CHOOSE i \in 1..Len(table) : table[i] = c
IsIn(c, table) == \E i \in 1..Len(table) : table[i] = c

\* the characters the model's strings are written in
Chars == {" "} \cup {Digits[i] : i \in 1..Len(Digits)}
               \cup {Upper[i] : i \in 1..Len(Upper)} \cup {Lower[i] : i \in 1..Len(Lower)}

\* the UTF-16 code unit of each character: space 32, '0' 48, 'A' 65, 'a' 97
CodeUnit ==
  [c \in Chars |->
     IF c = " " THEN 32
     ELSE IF IsIn(c, Digits) THEN 47 + IndexIn(c, Digits)
     ELSE IF IsIn(c, Upper) THEN 64 + IndexIn(c, Upper)
     ELSE 96 + IndexIn(c, Lower)]

Code(c) == CodeUnit[c]

\* the lower-case form of each character: only A..Z have another one
LowerCaseOf ==
  [c \in Chars |-> IF IsIn(c, Upper) THEN Lower[IndexIn(c, Upper)] ELSE c]

LowerChar(c) == LowerCaseOf[c]

\* String.prototype.toLowerCase
ToLowerCase(s) == [i \in 1..Len(s) |-> LowerChar(s[i])]

\* String.prototype.includes
Includes(s, t) ==
  \E i \in 1..(Len(s) + 1) :
    /\ i + Len(t) - 1 <= Len(s)
    /\ \A k \in 1..Len(t) : s[i + k - 1] = t[k]

\* s < t on strings: the first differing code unit decides, a proper prefix is less
StrLess(s, t) ==
  \E i \in 1..(Len(t)) :
    /\ \A k \in 1..(i - 1) : k <= Len(s) /\ s[k] = t[k]
    /\ \/ i = Len(s) + 1
       \/ i <= Len(s) /\ Code(s[i]) < Code(t[i])

----------------------------------------------------------------------------
(* JavaScript values *)

Num(n) == [t |-> "number", v |-> n]
Str(s) == [t |-> "string", v |-> s]
Undefined == [t |-> "undefined"]

TypeOf(x) == x.t

\* row[key]: undefined when the row has no such property
Get(row, key) == IF key \in DOMAIN row THEN row[key] ELSE Undefined

RECURSIVE ParseDigits(_)
ParseDigits(s) ==
  IF s = <<>> THEN 0
  ELSE 10 * ParseDigits(SubSeq(s, 1, Len(s) - 1)) + (Code(s[Len(s)]) - 48)

IsDigits(s) == s # <<>> /\ \A i \in 1..Len(s) : IsIn(s[i], Digits)

\* Number(x) for a number or a string of decimal digits
Number(x) == IF TypeOf(x) = "number" THEN x ELSE Num(ParseDigits(x.v))

\* whether Number(x) is a number other than NaN
IsNumeric(x) ==
  \/ TypeOf(x) = "number"
  \/ TypeOf(x) = "string" /\ IsDigits(x.v)

\* a < b: two strings compare by code units; otherwise both sides are
\* converted to numbers, and a comparison with NaN (undefined, a string that
\* is no number) is false
JsLess(a, b) ==
  IF TypeOf(a) = "string" /\ TypeOf(b) = "string" THEN StrLess(a.v, b.v)
  ELSE IF IsNumeric(a) /\ IsNumeric(b) THEN Number(a).v < Number(b).v
  ELSE FALSE

JsGreater(a, b) == JsLess(b, a)

\* !x for the values a row property can hold
Falsy(x) ==
  \/ TypeOf(x) = "undefined"
  \/ TypeOf(x) = "string" /\ x.v = <<>>
  \/ TypeOf(x) = "number" /\ x.v = 0

----------------------------------------------------------------------------
(* Rows: NHLGame and NFLPlayer (interfaces of app.component.ts) *)

NHLGame(team, games_count, wins, losses, yet_to_play, total_goals) ==
  [team |-> Str(team), games_count |-> Num(games_count), wins |-> Num(wins),
   losses |-> Num(losses), yet_to_play |-> Num(yet_to_play),
   total_goals |-> Num(total_goals)]

\* an NFLPlayer without fantasy_team_owner; the stat columns the model does
\* not vary are 0
NFLPlayer(name, team, position, fantasy_points) ==
  [name |-> Str(name), team |-> Str(team), position |-> Str(position),
   fantasy_points |-> Num(fantasy_points), touchdowns |-> Num(0),
   passing_yards |-> Num(0), rushing_yards |-> Num(0),
   receiving_yards |-> Num(0), receptions |-> Num(0), tackles |-> Num(0),
   sacks |-> Num(0), interceptions |-> Num(0)]

\* player with fantasy_team_owner set to owner
WithOwner(player, owner) ==
  [k \in (DOMAIN player) \cup {"fantasy_team_owner"} |->
     IF k = "fantasy_team_owner" THEN Str(owner) ELSE player[k]]

\* player with fantasy_team_owner = undefined
WithoutOwner(player) ==
  [k \in (DOMAIN player) \ {"fantasy_team_owner"} |-> player[k]]

\* the owners list of the component
PrettyFly == <<"P", "r", "e", "t", "t", "y", " ", "F", "l", "y", " ", "4", "a", " ", "D", "i", "c", "k", "e", "r", " ", "G", "u", "y">>
BlevelandClowns == <<"B", "l", "e", "v", "e", "l", "a", "n", "d", "C", "l", "o", "w", "n", "s">>
Team610jason == <<"T", "e", "a", "m", " ", "6", "1", "0", "j", "a", "s", "o", "n">>
\* the values of the owners list of the older component, in the same order
OwnerKeys == <<"chris", "aaron", "jay">>

Part002Owners == {OwnerKeys[k] : k \in 1..Len(OwnerKeys)}

\* the values of the owners list, in the order of the list
OwnerValues == <<PrettyFly, BlevelandClowns, Team610jason>>

Owners == {OwnerValues[k] : k \in 1..Len(OwnerValues)}

\* the sports a caller passes to setSport: the two of the sports list, and one
\* that is not in it
Sports == {"nhl", "nfl", "mlb"}
SeasonTypes == {"preseason", "regular"}
LeagueSeasons == {"2024", "2025"}

\* the columns a caller passes to sort(column)
SortColumns == {"team", "name", "fantasy_points", "total_goals", "fantasy_team_owner"}
Directions == {"asc", "desc"}

\* the texts typed into the search box
SearchTerms == {<<>>, <<"b", "o">>, <<"q", "b">>}

\* the team rows and player rows responses are made of
NHLPool ==
  <<NHLGame(<<"B", "o", "s", "t", "o", "n">>, 10, 5, 3, 2, 30),
    NHLGame(<<"D", "a", "l", "l", "a", "s">>, 10, 5, 5, 10, 10),
    NHLGame(<<"B", "o", "u", "l", "d", "e", "r">>, 8, 2, 6, 0, 30)>>

NFLPool ==
  <<NFLPlayer(<<"a", "d", "a", "m", "s">>, <<"D", "A", "L">>, <<"Q", "B">>, 10),
    WithOwner(NFLPlayer(<<"B", "r", "o", "w", "n">>, <<"B", "O", "S">>, <<"R", "B">>, 30), Team610jason),
    WithOwner(NFLPlayer(<<"C", "o", "l", "e">>, <<"b", "o", "s">>, <<"W", "R">>, 20), BlevelandClowns)>>

\* every sequence of at most n rows of the pool
SeqsUpTo(pool, n) ==
  UNION {[1..k -> {pool[i] : i \in 1..Len(pool)}] : k \in 0..n}

----------------------------------------------------------------------------
(* The view: getFilteredAndSortedNHLData, getFilteredAndSortedNFLData *)

\* the direction branch with its two arms exchanged
ThreeWayExchanged(aVal, bVal, dir) ==
  IF dir = "desc"
  THEN IF JsLess(aVal, bVal) THEN -1 ELSE IF JsGreater(aVal, bVal) THEN 1 ELSE 0
  ELSE IF JsGreater(aVal, bVal) THEN -1 ELSE IF JsLess(aVal, bVal) THEN 1 ELSE 0

\* the direction branch without its ": 0" arm: equal values answer 1
ThreeWayWithoutEqual(aVal, bVal, dir) ==
  IF dir = "asc"
  THEN IF JsLess(aVal, bVal) THEN -1 ELSE 1
  ELSE IF JsGreater(aVal, bVal) THEN -1 ELSE 1

\* the three-way result of the direction branch of both comparators
ThreeWay(aVal, bVal, dir) ==
  IF dir = "asc"
  THEN IF JsLess(aVal, bVal) THEN -1 ELSE IF JsGreater(aVal, bVal) THEN 1 ELSE 0
  ELSE IF JsGreater(aVal, bVal) THEN -1 ELSE IF JsLess(aVal, bVal) THEN 1 ELSE 0

\* the comparator of getFilteredAndSortedNHLData; (bVal as string) is a
\* string whenever aVal is one, since rows of one snapshot have the same shape
NHLCompare(a, b, by, dir) ==
  LET aRaw == Get(a, by)
      bRaw == Get(b, by)
      fold == TypeOf(aRaw) = "string"
      aVal == IF fold THEN Str(ToLowerCase(aRaw.v)) ELSE aRaw
      bVal == IF fold THEN Str(ToLowerCase(bRaw.v)) ELSE bRaw
  IN  ThreeWay(aVal, bVal, dir)

\* the player comparator without its three lines on undefined values
NFLCompareIgnoringUndefined(a, b, by, dir) ==
  LET aRaw == Get(a, by)
      bRaw == Get(b, by)
      fold == TypeOf(aRaw) = "string" /\ TypeOf(bRaw) = "string"
      aVal == IF fold THEN Str(ToLowerCase(aRaw.v)) ELSE aRaw
      bVal == IF fold THEN Str(ToLowerCase(bRaw.v)) ELSE bRaw
  IN  ThreeWay(aVal, bVal, dir)

\* the player comparator without the first of its lines on undefined
\* values: two undefined values are no longer equal
NFLCompareWithoutBothUndefined(a, b, by, dir) ==
  LET aRaw == Get(a, by)
      bRaw == Get(b, by)
      fold == TypeOf(aRaw) = "string" /\ TypeOf(bRaw) = "string"
      aVal == IF fold THEN Str(ToLowerCase(aRaw.v)) ELSE aRaw
      bVal == IF fold THEN Str(ToLowerCase(bRaw.v)) ELSE bRaw
  IN  IF TypeOf(aRaw) = "undefined" THEN 1
      ELSE IF TypeOf(bRaw) = "undefined" THEN -1
      ELSE ThreeWay(aVal, bVal, dir)

\* the comparator of getFilteredAndSortedNFLData
NFLCompare(a, b, by, dir) ==
  LET aRaw == Get(a, by)
      bRaw == Get(b, by)
      fold == TypeOf(aRaw) = "string" /\ TypeOf(bRaw) = "string"
      aVal == IF fold THEN Str(ToLowerCase(aRaw.v)) ELSE aRaw
      bVal == IF fold THEN Str(ToLowerCase(bRaw.v)) ELSE bRaw
  IN  IF TypeOf(aRaw) = "undefined" /\ TypeOf(bRaw) = "undefined" THEN 0
      ELSE IF TypeOf(aRaw) = "undefined" THEN 1
      ELSE IF TypeOf(bRaw) = "undefined" THEN -1
      ELSE ThreeWay(aVal, bVal, dir)

Compare(kind, a, b, by, dir) ==
  IF kind = "nhl" THEN NHLCompare(a, b, by, dir) ELSE NFLCompare(a, b, by, dir)

\* Array.prototype.sort on the positions idxs of data: a stable sort, here by
\* insertion: x goes behind every element the comparator does not put after it
RECURSIVE Insert(_, _, _, _, _, _)
Insert(sorted, x, data, kind, by, dir) ==
  IF sorted = <<>> THEN <<x>>
  ELSE LET last == sorted[Len(sorted)]
       IN  IF Compare(kind, data[last], data[x], by, dir) > 0
           THEN Append(Insert(SubSeq(sorted, 1, Len(sorted) - 1), x, data, kind, by, dir), last)
           ELSE Append(sorted, x)

RECURSIVE ArraySort(_, _, _, _, _)
ArraySort(idxs, data, kind, by, dir) ==
  IF idxs = <<>> THEN <<>>
  ELSE Insert(ArraySort(SubSeq(idxs, 1, Len(idxs) - 1), data, kind, by, dir),
              idxs[Len(idxs)], data, kind, by, dir)

\* the positions 1..n in order
RECURSIVE Iota(_)
Iota(n) == IF n = 0 THEN <<>> ELSE Append(Iota(n - 1), n)

\* Array.prototype.filter on positions
RECURSIVE FilterIdx(_, _)
FilterIdx(idxs, keep) ==
  IF idxs = <<>> THEN <<>>
  ELSE LET rest == FilterIdx(SubSeq(idxs, 1, Len(idxs) - 1), keep)
           x == idxs[Len(idxs)]
       IN  IF x \in keep THEN Append(rest, x) ELSE rest

\* the rows of data at the positions idxs
Rows(data, idxs) == [i \in 1..Len(idxs) |-> data[idxs[i]]]

\* game.team.toLowerCase().includes(searchTerm.toLowerCase())
NHLMatches(game, term) ==
  Includes(ToLowerCase(game.team.v), ToLowerCase(term))

\* the player filter testing the name only
NFLMatchesNameOnly(player, term) ==
  Includes(ToLowerCase(player.name.v), ToLowerCase(term))

\* the three-field test of the player filter
NFLMatches(player, term) ==
  \/ Includes(ToLowerCase(player.name.v), ToLowerCase(term))
  \/ Includes(ToLowerCase(player.team.v), ToLowerCase(term))
  \/ Includes(ToLowerCase(player.position.v), ToLowerCase(term))

Matches(kind, row, term) ==
  IF kind = "nhl" THEN NHLMatches(row, term) ELSE NFLMatches(row, term)

\* the filter step with the test of searchTerm moved into the predicate, so
\* that an empty searchTerm keeps no row
FilteredIdxGuardInside(kind, data, term) ==
  FilterIdx(Iota(Len(data)),
            {i \in 1..Len(data) : term # <<>> /\ Matches(kind, data[i], term)})

\* the filter step: positions of the rows kept; if (searchTerm) is false for ''
FilteredIdx(kind, data, term) ==
  IF term # <<>>
  THEN FilterIdx(Iota(Len(data)), {i \in 1..Len(data) : Matches(kind, data[i], term)})
  ELSE Iota(Len(data))

\* data = data.sort(cmp): the array data names is sorted in place
InPlaceSort(kind, data, idxs, by, dir) ==
  [result |-> Rows(data, ArraySort(idxs, data, kind, by, dir)),
   source |-> Rows(data, ArraySort(idxs, data, kind, by, dir))]

ReverseSeq(s) == [i \in 1..Len(s) |-> s[Len(s) + 1 - i]]

\* data.sort(ascending) followed by data.reverse() for 'desc', both on the
\* array data names: rows that compare equal change places at every call
SortThenReverseInPlace(kind, data, idxs, by, dir) ==
  LET up == ArraySort(idxs, data, kind, by, "asc")
      out == IF dir = "desc" THEN ReverseSeq(up) ELSE up
  IN  [result |-> Rows(data, out), source |-> Rows(data, out)]

\* data = [...data].sort(cmp): the copy is sorted and returned, and the array
\* that data named before is left as it was
SpreadSort(kind, data, idxs, by, dir) ==
  [result |-> Rows(data, ArraySort(idxs, data, kind, by, dir)), source |-> Rows(data, idxs)]

\* one call of getFilteredAndSortedNHLData / ...NFLData on the stored array:
\* what it returns and what the subject holds afterwards.  Without a search
\* term the local data names the subject's own array; with one, the array
\* filter() built
GetFilteredAndSorted(kind, stored, term, by, dir) ==
  LET idxs == FilteredIdx(kind, stored, term)
      s == SpreadSort(kind, stored, idxs, by, dir)
  IN  [result |-> s.result,
       stored |-> IF term # <<>> THEN stored ELSE s.source]

GetFilteredAndSortedNHLData(stored, term, by, dir) ==
  GetFilteredAndSorted("nhl", stored, term, by, dir)

GetFilteredAndSortedNFLData(stored, term, by, dir) ==
  GetFilteredAndSorted("nfl", stored, term, by, dir)

----------------------------------------------------------------------------
(* Loading: loadData, loadNHLData, loadNFLData and their subscribers *)

\* the bodies a response can carry: at most MaxFetchRows rows, each one of
\* the first two of its pool (for players: one without and one with an owner)
NHLResponses == SeqsUpTo(<<NHLPool[1], NHLPool[2]>>, MaxFetchRows)
NFLResponses == SeqsUpTo(<<NFLPool[1], NFLPool[2]>>, MaxFetchRows)

\* the decimal digits of a number that is not negative
RECURSIVE DigitsOf(_)
DigitsOf(n) ==
  IF n < 10 THEN <<Digits[n + 1]>>
  ELSE Append(DigitsOf(n \div 10), Digits[(n % 10) + 1])

\* a row as a JSON body carries it when every number is sent as a string
AsText(row) ==
  [k \in DOMAIN row |-> IF TypeOf(row[k]) = "number" THEN Str(DigitsOf(row[k].v))
                                                     ELSE row[k]]

\* bodies of at most MaxFetchRows rows, each with its numbers as numbers or
\* with its numbers as strings
NHLTextResponses == SeqsUpTo(<<NHLPool[1], AsText(NHLPool[1])>>, MaxFetchRows)
NFLTextResponses == SeqsUpTo(<<NFLPool[1], AsText(NFLPool[1])>>, MaxFetchRows)

\* row with Number() applied to the properties keys
Coerced(row, keys) ==
  [k \in DOMAIN row |-> IF k \in keys THEN Number(row[k]) ELSE row[k]]

\* the map of loadNHLData's next handler
ConvertNHL(game) ==
  Coerced(game, {"games_count", "wins", "losses", "yet_to_play", "total_goals"})

\* the map of loadNFLData's next handler; fantasy_team_owner || undefined
ConvertNFL(player) ==
  LET owner == Get(player, "fantasy_team_owner")
      row == Coerced(WithoutOwner(player),
                     {"fantasy_points", "touchdowns", "passing_yards",
                      "rushing_yards", "receiving_yards"})
  IN  IF Falsy(owner) THEN row ELSE WithOwner(row, owner.v)

MapRows(kind, rows) ==
  [i \in 1..Len(rows) |-> IF kind = "nhl" THEN ConvertNHL(rows[i]) ELSE ConvertNFL(rows[i])]

\* a request subscribed to: its number, its dataset, and (for reference) the
\* rows that dataset held when the load began and whether a later load of
\* the same dataset has been started since
Request(kind, before) ==
  [id |-> issued + 1, kind |-> kind, before |-> before, overtaken |-> FALSE]

\* the subscriptions still open once another load of the dataset has begun:
\* nothing unsubscribes them
Overtaken(kind) ==
  {[r EXCEPT !.overtaken = (@ \/ r.kind = kind)] : r \in pending}

\* loadNHLData: empty the NHL subject, issue the request, subscribe
LoadNHLData ==
  /\ issued < MaxLoads
  /\ nhlData' = <<>>
  /\ pending' = Overtaken("nhl") \cup {Request("nhl", nhlData)}
  /\ issued' = issued + 1
  /\ UNCHANGED nflData

\* loadNFLData as it would be without its first line
LoadNFLDataKeepingRows ==
  /\ issued < MaxLoads
  /\ pending' = Overtaken("nfl") \cup {Request("nfl", nflData)}
  /\ issued' = issued + 1
  /\ UNCHANGED <<nhlData, nflData>>

\* loadNFLData: empty the NFL subject, issue the request, subscribe
LoadNFLData ==
  /\ issued < MaxLoads
  /\ nflData' = <<>>
  /\ pending' = Overtaken("nfl") \cup {Request("nfl", nflData)}
  /\ issued' = issued + 1
  /\ UNCHANGED nhlData

\* loadData with selectedSport = sport: no branch is taken for a sport that
\* is neither 'nhl' nor 'nfl'
LoadData(sport) ==
  /\ isLoading' = TRUE
  /\ IF sport = "nhl" THEN LoadNHLData
     ELSE IF sport = "nfl" THEN LoadNFLData
     ELSE UNCHANGED <<nhlData, nflData, pending, issued>>

NgOnInit ==
  /\ ~started
  /\ lastCall' = [op |-> "ngOnInit"]
  /\ returned' = <<>>
  /\ UNCHANGED <<fantasyTeams, siblings>>
  /\ started' = TRUE
  /\ LoadData(selectedSport)
  /\ UNCHANGED <<selectedSport, searchTerm, sortBy, sortDirection,
                 selectedSeasonType, selectedLeagueSeason, selectedOwner, view>>

\* the next handler of loadNHLData's subscription
NHLNext(r, body) ==
  /\ nhlData' = MapRows("nhl", body)
  /\ isLoading' = FALSE
  /\ pending' = pending \ {r}
  /\ UNCHANGED nflData

\* the error handler of loadNHLData's subscription
NHLError(r) ==
  /\ isLoading' = FALSE
  /\ pending' = pending \ {r}
  /\ UNCHANGED <<nhlData, nflData>>

\* a next handler that adds the converted rows to the rows already held
NFLNextMerging(r, body) ==
  /\ nflData' = nflData \o MapRows("nfl", body)
  /\ isLoading' = FALSE
  /\ pending' = pending \ {r}
  /\ UNCHANGED nhlData

\* a next handler that drops the response of a load that a later load of
\* the same dataset has followed
NFLNextUnlessOvertaken(r, body) ==
  /\ nflData' = IF r.overtaken THEN nflData ELSE MapRows("nfl", body)
  /\ isLoading' = FALSE
  /\ pending' = pending \ {r}
  /\ UNCHANGED nhlData

\* the next handler of loadNFLData's subscription
NFLNext(r, body) ==
  /\ nflData' = MapRows("nfl", body)
  /\ isLoading' = FALSE
  /\ pending' = pending \ {r}
  /\ UNCHANGED nhlData

\* the error handler of loadNFLData's subscription
NFLError(r) ==
  /\ isLoading' = FALSE
  /\ pending' = pending \ {r}
  /\ UNCHANGED <<nhlData, nflData>>

\* what the handlers of a subscription leave alone
ResponseFrame ==
  /\ returned' = <<>>
  /\ UNCHANGED <<selectedSport, searchTerm, sortBy, sortDirection, selectedSeasonType,
              selectedLeagueSeason, selectedOwner, issued, view, started,
              fantasyTeams, siblings>>

\* r answers a load that a later load of the same dataset has followed, and
\* no subscription of that later load is still open
ArrivesLate(r) ==
  /\ r.overtaken
  /\ \A q \in pending : (q.kind = r.kind /\ q # r) => q.id < r.id

\* the response to request r arrives with body
Deliver(r, body) ==
  /\ lastCall' = [op |-> "next", kind |-> r.kind, before |-> r.before,
                  body |-> body, late |-> ArrivesLate(r)]
  /\ IF r.kind = "nhl" THEN NHLNext(r, body) ELSE NFLNext(r, body)
  /\ ResponseFrame

\* request r completes with a body
Succeed(r) ==
  /\ r \in pending
  /\ \E body \in (IF r.kind = "nhl" THEN NHLResponses ELSE NFLResponses) :
       Deliver(r, body)

\* request r completes with a body whose rows may carry their numbers as
\* strings of digits
SucceedAsText(r) ==
  /\ r \in pending
  /\ \E body \in (IF r.kind = "nhl" THEN NHLTextResponses ELSE NFLTextResponses) :
       Deliver(r, body)

CompleteAsText == \E r \in pending : SucceedAsText(r)

\* request r completes with an error
Fail(r) ==
  /\ r \in pending
  /\ lastCall' = [op |-> "error", kind |-> r.kind, before |-> r.before]
  /\ IF r.kind = "nhl" THEN NHLError(r) ELSE NFLError(r)
  /\ ResponseFrame

\* some request completes, in whatever order the responses arrive
Complete == \E r \in pending : Succeed(r) \/ Fail(r)

----------------------------------------------------------------------------
(* The handlers of the controls *)

\* sort(column) as it would be if a newly chosen column kept the direction
SortStateKeepingDirection(column, by, dir) ==
  IF by = column
  THEN [sortBy |-> by, sortDirection |-> IF dir = "asc" THEN "desc" ELSE "asc"]
  ELSE [sortBy |-> column, sortDirection |-> dir]

\* sort(column) as it would be if every call reset the direction
SortStateAlwaysDescending(column, by, dir) ==
  [sortBy |-> column, sortDirection |-> "desc"]

\* sort(column): the sortBy and sortDirection it leaves
SortState(column, by, dir) ==
  IF by = column
  THEN [sortBy |-> by, sortDirection |-> IF dir = "asc" THEN "desc" ELSE "asc"]
  ELSE [sortBy |-> column, sortDirection |-> "desc"]

Sort(column) ==
  /\ started
  /\ lastCall' = [op |-> "sort", column |-> column, fresh |-> (column # sortBy), was |-> sortDirection]
  /\ returned' = <<>>
  /\ UNCHANGED <<fantasyTeams, siblings>>
  /\ sortBy' = SortState(column, sortBy, sortDirection).sortBy
  /\ sortDirection' = SortState(column, sortBy, sortDirection).sortDirection
  /\ UNCHANGED <<selectedSport, searchTerm, selectedSeasonType, selectedLeagueSeason,
                 selectedOwner, isLoading, nhlData, nflData, pending, issued, view,
                 started>>

\* toggleSortDirection as it would be if it assigned 'asc'
ToggleSortDirectionToAscending ==
  /\ started
  /\ lastCall' = [op |-> "toggleSortDirection", was |-> sortDirection,
                  again |-> (lastCall.op = "toggleSortDirection")]
  /\ returned' = <<>>
  /\ UNCHANGED <<fantasyTeams, siblings>>
  /\ sortDirection' = "asc"
  /\ UNCHANGED <<selectedSport, searchTerm, sortBy, selectedSeasonType,
                 selectedLeagueSeason, selectedOwner, isLoading, nhlData, nflData,
                 pending, issued, view, started>>

ToggleSortDirection ==
  /\ started
  /\ lastCall' = [op |-> "toggleSortDirection", was |-> sortDirection,
                  again |-> (lastCall.op = "toggleSortDirection")]
  /\ returned' = <<>>
  /\ UNCHANGED <<fantasyTeams, siblings>>
  /\ sortDirection' = IF sortDirection = "asc" THEN "desc" ELSE "asc"
  /\ UNCHANGED <<selectedSport, searchTerm, sortBy, selectedSeasonType,
                 selectedLeagueSeason, selectedOwner, isLoading, nhlData, nflData,
                 pending, issued, view, started>>

\* the search box writes searchTerm
SetSearchTerm(term) ==
  /\ started
  /\ lastCall' = [op |-> "setSearchTerm"]
  /\ returned' = <<>>
  /\ UNCHANGED <<fantasyTeams, siblings>>
  /\ searchTerm' = term
  /\ UNCHANGED <<selectedSport, sortBy, sortDirection, selectedSeasonType,
                 selectedLeagueSeason, selectedOwner, isLoading, nhlData, nflData,
                 pending, issued, view, started>>

\* setSport as it would be if it reset the direction the way sort does
SetSportResettingDirection(sport) ==
  /\ started
  /\ lastCall' = [op |-> "setSport", term |-> searchTerm]
  /\ returned' = <<>>
  /\ UNCHANGED <<fantasyTeams, siblings>>
  /\ selectedSport' = sport
  /\ searchTerm' = <<>>
  /\ sortBy' = IF sport = "nfl" THEN "fantasy_points" ELSE "total_goals"
  /\ sortDirection' = "desc"
  /\ LoadData(sport)
  /\ UNCHANGED <<selectedSeasonType, selectedLeagueSeason, selectedOwner, view,
                 started>>

SetSport(sport) ==
  /\ started
  /\ lastCall' = [op |-> "setSport", term |-> searchTerm]
  /\ returned' = <<>>
  /\ UNCHANGED <<fantasyTeams, siblings>>
  /\ selectedSport' = sport
  /\ searchTerm' = <<>>
  /\ sortBy' = IF sport = "nfl" THEN "fantasy_points" ELSE "total_goals"
  /\ LoadData(sport)
  /\ UNCHANGED <<sortDirection, selectedSeasonType, selectedLeagueSeason,
                 selectedOwner, view, started>>

SetSeasonType(seasonType) ==
  /\ started
  /\ lastCall' = [op |-> "setSeasonType"]
  /\ returned' = <<>>
  /\ UNCHANGED <<fantasyTeams, siblings>>
  /\ selectedSeasonType' = seasonType
  /\ LoadData(selectedSport)
  /\ UNCHANGED <<selectedSport, searchTerm, sortBy, sortDirection,
                 selectedLeagueSeason, selectedOwner, view, started>>

SetLeagueSeason(leagueSeason) ==
  /\ started
  /\ lastCall' = [op |-> "setLeagueSeason"]
  /\ returned' = <<>>
  /\ UNCHANGED <<fantasyTeams, siblings>>
  /\ selectedLeagueSeason' = leagueSeason
  /\ LoadData(selectedSport)
  /\ UNCHANGED <<selectedSport, searchTerm, sortBy, sortDirection,
                 selectedSeasonType, selectedOwner, view, started>>

SetOwner(owner) ==
  /\ started
  /\ lastCall' = [op |-> "setOwner"]
  /\ returned' = <<>>
  /\ UNCHANGED <<fantasyTeams, siblings>>
  /\ selectedOwner' = owner
  /\ UNCHANGED <<selectedSport, searchTerm, sortBy, sortDirection, selectedSeasonType,
                 selectedLeagueSeason, isLoading, nhlData, nflData, pending, issued,
                 view, started>>

\* addPlayerToTeam without its test: the selected owner takes the player
\* from whoever holds it
AddedToTeamAlways(player, owner) == WithOwner(player, owner)

\* removePlayerFromTeam without its test: any owner's player is released
RemovedFromTeamAlways(player, owner) == WithoutOwner(player)

\* addPlayerToTeam(player): the player object after the call
AddedToTeam(player, owner) ==
  IF Falsy(Get(player, "fantasy_team_owner")) THEN WithOwner(player, owner) ELSE player

\* removePlayerFromTeam(player): the player object after the call
RemovedFromTeam(player, owner) ==
  IF Get(player, "fantasy_team_owner") = Str(owner) THEN WithoutOwner(player) ELSE player

\* the table hands addPlayerToTeam a row object of the player snapshot
AddPlayerToTeam(i) ==
  /\ started
  /\ i \in 1..Len(nflData)
  /\ lastCall' = [op |-> "addPlayerToTeam", player |-> i,
                  was |-> Get(nflData[i], "fantasy_team_owner")]
  /\ returned' = <<>>
  /\ UNCHANGED <<fantasyTeams, siblings>>
  /\ nflData' = [nflData EXCEPT ![i] = AddedToTeam(@, selectedOwner)]
  /\ UNCHANGED <<selectedSport, searchTerm, sortBy, sortDirection, selectedSeasonType,
                 selectedLeagueSeason, selectedOwner, isLoading, nhlData, pending,
                 issued, view, started>>

RemovePlayerFromTeam(i) ==
  /\ started
  /\ i \in 1..Len(nflData)
  /\ lastCall' = [op |-> "removePlayerFromTeam", player |-> i,
                  was |-> Get(nflData[i], "fantasy_team_owner")]
  /\ returned' = <<>>
  /\ UNCHANGED <<fantasyTeams, siblings>>
  /\ nflData' = [nflData EXCEPT ![i] = RemovedFromTeam(@, selectedOwner)]
  /\ UNCHANGED <<selectedSport, searchTerm, sortBy, sortDirection, selectedSeasonType,
                 selectedLeagueSeason, selectedOwner, isLoading, nhlData, pending,
                 issued, view, started>>

\* getCurrentData: the NHL view for 'nhl', the NFL view for anything else;
\* view records the rows returned
GetCurrentData ==
  /\ started
  /\ lastCall' = [op |-> "getCurrentData",
                  again |-> (lastCall.op = "getCurrentData"),
                  previous |-> IF lastCall.op = "getCurrentData" THEN view ELSE <<>>]
  /\ returned' = <<>>
  /\ UNCHANGED <<fantasyTeams, siblings>>
  /\ IF selectedSport = "nhl"
     THEN LET r == GetFilteredAndSortedNHLData(nhlData, searchTerm, sortBy, sortDirection)
          IN  view' = r.result /\ nhlData' = r.stored /\ UNCHANGED nflData
     ELSE LET r == GetFilteredAndSortedNFLData(nflData, searchTerm, sortBy, sortDirection)
          IN  view' = r.result /\ nflData' = r.stored /\ UNCHANGED nhlData
  /\ UNCHANGED <<selectedSport, searchTerm, sortBy, sortDirection, selectedSeasonType,
                 selectedLeagueSeason, selectedOwner, isLoading, pending, issued,
                 started>>

----------------------------------------------------------------------------
(* The reporting methods: rosters, totals and the win percentage *)

\* what every reporting method leaves alone: all but lastCall and returned
ReportFrame ==
  UNCHANGED <<selectedSport, searchTerm, sortBy, sortDirection, selectedSeasonType,
              selectedLeagueSeason, selectedOwner, isLoading, nhlData, nflData,
              pending, issued, view, started, fantasyTeams, siblings>>

\* data.reduce((sum, row) => sum + row[key], 0) on rows whose key is a number
RECURSIVE Reduce(_, _)
Reduce(data, key) ==
  IF data = <<>> THEN 0
  ELSE Reduce(SubSeq(data, 1, Len(data) - 1), key) + data[Len(data)][key].v

\* the roster filter applied to the rows the table shows instead of the snapshot
FantasyTeamOfView(data, owner) ==
  LET shown == GetFilteredAndSortedNFLData(data, searchTerm, sortBy, sortDirection).result
  IN  Rows(shown, FilterIdx(Iota(Len(shown)),
                            {i \in 1..Len(shown) :
                               Get(shown[i], "fantasy_team_owner") = Str(owner)}))

\* nflDataSubject.value.filter(player => player.fantasy_team_owner === selectedOwner)
FantasyTeam(data, owner) ==
  Rows(data, FilterIdx(Iota(Len(data)),
                       {i \in 1..Len(data) :
                          Get(data[i], "fantasy_team_owner") = Str(owner)}))

GetFantasyTeam ==
  /\ started
  /\ lastCall' = [op |-> "getFantasyTeam"]
  /\ returned' = FantasyTeam(nflData, selectedOwner)
  /\ ReportFrame

\* the reduce applied to every loaded player
TotalFantasyPointsOfAll(data, owner) == Num(Reduce(data, "fantasy_points"))

\* getFantasyTeam().reduce((sum, p) => sum + p.fantasy_points, 0)
TotalFantasyPoints(data, owner) ==
  Num(Reduce(FantasyTeam(data, owner), "fantasy_points"))

GetTotalFantasyPoints ==
  /\ started
  /\ lastCall' = [op |-> "getTotalFantasyPoints"]
  /\ returned' = TotalFantasyPoints(nflData, selectedOwner)
  /\ ReportFrame

\* a / b on numbers, kept exact as a fraction in lowest terms with a
\* positive denominator; a denominator of 0 stands for what JavaScript
\* gives on division by zero: NaN for 0 / 0, Infinity or -Infinity otherwise
RECURSIVE GCD(_, _)
GCD(a, b) == IF b = 0 THEN a ELSE GCD(b, a % b)

Abs(n) == IF n < 0 THEN -n ELSE n

Quotient(a, b) ==
  IF b = 0 THEN [num |-> IF a > 0 THEN 1 ELSE IF a < 0 THEN -1 ELSE 0, den |-> 0]
  ELSE LET g == GCD(Abs(a), Abs(b))
           sign == IF b < 0 THEN -1 ELSE 1
       IN  [num |-> sign * (a \div g), den |-> Abs(b) \div g]

\* (game.wins / gamesPlayed) * 100 computed whatever gamesPlayed is
WinPercentageUnguarded(game) ==
  LET gamesPlayed == game.games_count.v - game.yet_to_play.v
  IN  Quotient(game.wins.v * 100, gamesPlayed)

\* getWinPercentage with games_count where wins belongs
WinPercentageOfGamesCount(game) ==
  LET gamesPlayed == game.games_count.v - game.yet_to_play.v
  IN  IF gamesPlayed > 0 THEN Quotient(game.games_count.v * 100, gamesPlayed)
      ELSE Quotient(0, 1)

\* getWinPercentage(game).  The product with 100 is taken before the
\* division, which gives the same number where the arithmetic is exact
WinPercentage(game) ==
  LET gamesPlayed == game.games_count.v - game.yet_to_play.v
  IN  IF gamesPlayed > 0 THEN Quotient(game.wins.v * 100, gamesPlayed) ELSE Quotient(0, 1)

\* the table asks for the win percentage of a row of the team snapshot
GetWinPercentage(i) ==
  /\ started
  /\ i \in 1..Len(nhlData)
  /\ lastCall' = [op |-> "getWinPercentage", game |-> i]
  /\ returned' = WinPercentage(nhlData[i])
  /\ ReportFrame

\* getTotalGames(data)
TotalGames(data) == Num(Reduce(data, "games_count"))

\* getTotalGoals with the field of getTotalGames
TotalGoalsCountingGames(data) == Num(Reduce(data, "games_count"))

\* getTotalGoals(data)
TotalGoals(data) == Num(Reduce(data, "total_goals"))

\* the rows handed to getTotalGames / getTotalGoals: the team snapshot, or
\* the team view computed for the call
Argument(ofView) ==
  IF ofView
  THEN GetFilteredAndSortedNHLData(nhlData, searchTerm, sortBy, sortDirection)
  ELSE [result |-> nhlData, stored |-> nhlData]

\* what getTotalGames and getTotalGoals leave alone
TotalsFrame ==
  UNCHANGED <<selectedSport, searchTerm, sortBy, sortDirection, selectedSeasonType,
              selectedLeagueSeason, selectedOwner, isLoading, nflData, pending,
              issued, view, started, fantasyTeams, siblings>>

GetTotalGames(ofView) ==
  /\ started
  /\ lastCall' = [op |-> "getTotalGames", data |-> Argument(ofView).result,
                  ofView |-> ofView]
  /\ returned' = TotalGames(Argument(ofView).result)
  /\ nhlData' = Argument(ofView).stored
  /\ TotalsFrame

GetTotalGoals(ofView) ==
  /\ started
  /\ lastCall' = [op |-> "getTotalGoals", data |-> Argument(ofView).result,
                  ofView |-> ofView]
  /\ returned' = TotalGoals(Argument(ofView).result)
  /\ nhlData' = Argument(ofView).stored
  /\ TotalsFrame

----------------------------------------------------------------------------
(* The older AppComponent (src/unnamed/part_002), which keeps one array of  *)
(* players per owner in fantasyTeams instead of an owner on each player.    *)
(* It is given the calls the component above is given: the same rows as     *)
(* they were delivered, and the owner at the same place of its owners list. *)

\* the older component's selectedOwner
Part002SelectedOwner ==
  OwnerKeys[CHOOSE k \in 1..Len(OwnerValues) : OwnerValues[k] = selectedOwner]

\* addPlayerToTeam: push unless the selected owner's array has the name
PushedToTeam(team, player) ==
  IF \E k \in 1..Len(team) : team[k].name = player.name
  THEN team
  ELSE Append(team, player)

\* removePlayerFromTeam: splice the first entry of that name out of the
\* selected owner's array
SplicedFromTeam(team, player) ==
  IF \E k \in 1..Len(team) : team[k].name = player.name
  THEN LET index == CHOOSE k \in 1..Len(team) :
                      /\ team[k].name = player.name
                      /\ \A j \in 1..(k - 1) : team[j].name # player.name
       IN  SubSeq(team, 1, index - 1) \o SubSeq(team, index + 1, Len(team))
  ELSE team

\* what a call on both components leaves alone
BothFrame ==
  UNCHANGED <<selectedSport, searchTerm, sortBy, sortDirection, selectedSeasonType,
              selectedLeagueSeason, selectedOwner, isLoading, nhlData, pending,
              issued, view, started, siblings>>

\* addPlayerToTeam(player) on both components
AddPlayerToTeamOfBoth(i) ==
  /\ started
  /\ i \in 1..Len(nflData)
  /\ lastCall' = [op |-> "addPlayerToTeam", player |-> i,
                  was |-> Get(nflData[i], "fantasy_team_owner")]
  /\ returned' = <<>>
  /\ nflData' = [nflData EXCEPT ![i] = AddedToTeam(@, selectedOwner)]
  /\ fantasyTeams' = [fantasyTeams EXCEPT
                        ![Part002SelectedOwner] = PushedToTeam(@, WithoutOwner(nflData[i]))]
  /\ BothFrame

\* removePlayerFromTeam(player) on both components
RemovePlayerFromTeamOfBoth(i) ==
  /\ started
  /\ i \in 1..Len(nflData)
  /\ lastCall' = [op |-> "removePlayerFromTeam", player |-> i,
                  was |-> Get(nflData[i], "fantasy_team_owner")]
  /\ returned' = <<>>
  /\ nflData' = [nflData EXCEPT ![i] = RemovedFromTeam(@, selectedOwner)]
  /\ fantasyTeams' = [fantasyTeams EXCEPT
                        ![Part002SelectedOwner] = SplicedFromTeam(@, WithoutOwner(nflData[i]))]
  /\ BothFrame

----------------------------------------------------------------------------
(* DraftBoardComponent (header.component.ts): the players without an owner *)

\* the positions list of the component
Positions ==
  {<<>>, <<"Q", "B">>, <<"R", "B">>, <<"W", "R">>, <<"T", "E">>, <<"K">>,
   <<"D", "E", "F">>}

\* the end of the slice getAvailablePlayers takes
AvailableLimit == 50

\* (a, b) => b.fantasy_points - a.fantasy_points
ByPoints(a, b) == b.fantasy_points.v - a.fantasy_points.v

\* Array.prototype.sort with ByPoints on positions of data: a stable sort
RECURSIVE InsertByPoints(_, _, _)
InsertByPoints(sorted, x, data) ==
  IF sorted = <<>> THEN <<x>>
  ELSE LET last == sorted[Len(sorted)]
       IN  IF ByPoints(data[last], data[x]) > 0
           THEN Append(InsertByPoints(SubSeq(sorted, 1, Len(sorted) - 1), x, data), last)
           ELSE Append(sorted, x)

RECURSIVE SortByPoints(_, _)
SortByPoints(idxs, data) ==
  IF idxs = <<>> THEN <<>>
  ELSE InsertByPoints(SortByPoints(SubSeq(idxs, 1, Len(idxs) - 1), data),
                      idxs[Len(idxs)], data)

\* Array.prototype.slice(0, end)
Slice(s, end) == SubSeq(s, 1, IF Len(s) < end THEN Len(s) ELSE end)

\* getAvailablePlayers without the slice
AvailablePlayersUnsliced(data, filter) ==
  LET unowned == FilterIdx(Iota(Len(data)),
                           {i \in 1..Len(data) :
                              Falsy(Get(data[i], "fantasy_team_owner"))})
      players == IF ~Falsy(Str(filter))
                 THEN FilterIdx(unowned, {i \in 1..Len(data) :
                                            data[i].position = Str(filter)})
                 ELSE unowned
  IN  [result |-> Rows(data, SortByPoints(players, data)), input |-> data]

\* getAvailablePlayers on the input nflData: what it returns and what the
\* input array holds afterwards.  filter() builds the array that sort()
\* orders in place, so the input keeps its order
AvailablePlayers(data, filter) ==
  LET unowned == FilterIdx(Iota(Len(data)),
                           {i \in 1..Len(data) :
                              Falsy(Get(data[i], "fantasy_team_owner"))})
      players == IF ~Falsy(Str(filter))
                 THEN FilterIdx(unowned, {i \in 1..Len(data) :
                                            data[i].position = Str(filter)})
                 ELSE unowned
  IN  [result |-> Rows(data, Slice(SortByPoints(players, data), AvailableLimit)),
       input |-> data]

SetPositionFilter(position) ==
  /\ lastCall' = [op |-> "setPositionFilter"]
  /\ returned' = <<>>
  /\ positionFilter' = position
  /\ UNCHANGED <<appVars, dialogVars, seedVars>>

GetAvailablePlayers ==
  /\ lastCall' = [op |-> "getAvailablePlayers", before |-> nflData]
  /\ returned' = AvailablePlayers(nflData, positionFilter).result
  /\ nflData' = AvailablePlayers(nflData, positionFilter).input
  /\ UNCHANGED <<selectedSport, searchTerm, sortBy, sortDirection, selectedSeasonType,
                 selectedLeagueSeason, selectedOwner, isLoading, nhlData, pending,
                 issued, view, started, fantasyTeams, siblings>>

----------------------------------------------------------------------------
(* FantasyTeamComponent (header.component.ts): the dialog.  An overlay is  *)
(* the number of the createDialog call that created it.                    *)

\* createDialog: build an overlay, append it to document.body and keep it in
\* dialogElement
CreateDialog ==
  /\ overlays' = overlays + 1
  /\ documentBody' = documentBody \cup {overlays + 1}
  /\ dialogElement' = overlays + 1

\* removeDialog: take the overlay dialogElement names off document.body
RemoveDialog ==
  IF dialogElement # 0
  THEN /\ documentBody' = documentBody \ {dialogElement}
       /\ dialogElement' = 0
       /\ UNCHANGED overlays
  ELSE UNCHANGED <<documentBody, dialogElement, overlays>>

ShowPoopDialog ==
  /\ overlays < MaxOverlays
  /\ lastCall' = [op |-> "showPoopDialog"]
  /\ returned' = <<>>
  /\ showDialog' = TRUE
  /\ CreateDialog
  /\ UNCHANGED <<appVars, positionFilter, seedVars>>

\* closeDialog, called by the template and by a click on an overlay or on
\* its close button
CloseDialog ==
  /\ lastCall' = [op |-> "closeDialog"]
  /\ returned' = <<>>
  /\ showDialog' = FALSE
  /\ RemoveDialog
  /\ UNCHANGED <<appVars, positionFilter, seedVars>>

----------------------------------------------------------------------------
(* seed_sleeper_rosters.js: one run of seedDatabase.  Every awaited call   *)
(* is a step that either succeeds or throws; a row of sleeper_rosters is   *)
(* its id, its key (league_id, roster_id) and, for the columns the         *)
(* statement writes, owner_id.  Each statement is committed on its own.    *)

\* the league of the URL and of the DELETE statement
SeedLeague == "1257449367455944704"

\* the statements the run awaits
SeedSteps == {"fetch", "schema", "delete", "insert", "count"}

Roster(roster_id, owner_id) ==
  [roster_id |-> roster_id, league_id |-> SeedLeague, owner_id |-> owner_id]

\* the rosters a response is made of: two share a roster_id
RosterPool == <<Roster(1, "a"), Roster(1, "b"), Roster(2, "a")>>

FetchedRosters == SeqsUpTo(RosterPool, MaxRosters)

\* the tables the run can find: rows of the league and a row of another one
EarlierRows ==
  {[id |-> 1, roster_id |-> 1, league_id |-> SeedLeague, owner_id |-> "a"],
   [id |-> 2, roster_id |-> 3, league_id |-> SeedLeague, owner_id |-> "c"],
   [id |-> 3, roster_id |-> 1, league_id |-> "other", owner_id |-> "a"]}

\* UNIQUE(league_id, roster_id)
SameKey(a, b) == a.league_id = b.league_id /\ a.roster_id = b.roster_id

\* INSERT ... ON CONFLICT (league_id, roster_id) DO UPDATE SET ...: the row
\* of the key takes the values of the roster and keeps its id, or a new row
\* is added with the id drawn from the sequence
Upserted(table, roster, id) ==
  IF \E row \in table : SameKey(row, roster)
  THEN {IF SameKey(row, roster) THEN [row EXCEPT !.owner_id = roster.owner_id] ELSE row :
          row \in table}
  ELSE table \cup {[id |-> id, roster_id |-> roster.roster_id,
                    league_id |-> roster.league_id, owner_id |-> roster.owner_id]}

\* what a step of the script leaves alone
SeedFrame ==
  /\ returned' = <<>>
  /\ UNCHANGED <<appVars, positionFilter, dialogVars>>

\* await fetchRosterData() returns the parsed response
FetchRosterData ==
  /\ seedAt = "fetch"
  /\ lastCall' = [op |-> "fetchRosterData"]
  /\ rosters' \in FetchedRosters
  /\ seedAt' = "schema"
  /\ UNCHANGED <<sleeper_rosters, cursor, serial, exitCode, deleted>>
  /\ SeedFrame

\* CREATE TABLE IF NOT EXISTS and the indexes, on the table that exists
CreateSchema ==
  /\ seedAt = "schema"
  /\ lastCall' = [op |-> "schema"]
  /\ seedAt' = "delete"
  /\ UNCHANGED <<sleeper_rosters, rosters, cursor, serial, exitCode, deleted>>
  /\ SeedFrame

\* DELETE FROM sleeper_rosters WHERE league_id = SeedLeague, then the loop
\* is entered, or left at once when no roster was fetched
DeleteLeagueRows ==
  /\ seedAt = "delete"
  /\ lastCall' = [op |-> "delete"]
  /\ deleted' = {row \in sleeper_rosters : row.league_id = SeedLeague}
  /\ sleeper_rosters' = sleeper_rosters \ deleted'
  /\ cursor' = 1
  /\ seedAt' = IF Len(rosters) >= 1 THEN "insert" ELSE "count"
  /\ UNCHANGED <<rosters, serial, exitCode>>
  /\ SeedFrame

\* one turn of the loop: the INSERT for rosters[cursor].  The default of id
\* draws from the sequence whether or not the key is already there
InsertRoster ==
  /\ seedAt = "insert"
  /\ lastCall' = [op |-> "insert", roster |-> cursor]
  /\ serial' = serial + 1
  /\ sleeper_rosters' = Upserted(sleeper_rosters, rosters[cursor], serial + 1)
  /\ cursor' = cursor + 1
  /\ seedAt' = IF cursor < Len(rosters) THEN "insert" ELSE "count"
  /\ UNCHANGED <<rosters, exitCode, deleted>>
  /\ SeedFrame

\* SELECT COUNT(*), after which the function returns and the process ends
CountRows ==
  /\ seedAt = "count"
  /\ lastCall' = [op |-> "count"]
  /\ seedAt' = "done"
  /\ exitCode' = 0
  /\ UNCHANGED <<sleeper_rosters, rosters, cursor, serial, deleted>>
  /\ SeedFrame

\* the awaited call throws and the catch block puts back the deleted rows
SeedFailsRollingBack ==
  /\ seedAt \in SeedSteps
  /\ lastCall' = [op |-> "exit", at |-> seedAt]
  /\ seedAt' = "exited"
  /\ exitCode' = 1
  /\ sleeper_rosters' = sleeper_rosters \cup deleted
  /\ UNCHANGED <<rosters, cursor, serial, deleted>>
  /\ SeedFrame

\* the awaited call throws: the catch block logs and calls process.exit(1)
SeedFails ==
  /\ seedAt \in SeedSteps
  /\ lastCall' = [op |-> "exit", at |-> seedAt]
  /\ seedAt' = "exited"
  /\ exitCode' = 1
  /\ UNCHANGED <<sleeper_rosters, rosters, cursor, serial, deleted>>
  /\ SeedFrame

----------------------------------------------------------------------------
(* The components and the script next to AppComponent, as constructed *)

\* DraftBoardComponent's field initialiser
DraftBoardConstructed == positionFilter = <<>>

\* FantasyTeamComponent's field initialisers, and a document without overlays
FantasyTeamConstructed ==
  /\ showDialog = FALSE
  /\ dialogElement = 0
  /\ documentBody = {}
  /\ overlays = 0

\* the seeding script not run, on an empty table
SeederIdle ==
  /\ sleeper_rosters = {}
  /\ rosters = <<>>
  /\ seedAt = "idle"
  /\ cursor = 0
  /\ serial = 0
  /\ exitCode = -1
  /\ deleted = {}

SiblingsInit == DraftBoardConstructed /\ FantasyTeamConstructed /\ SeederIdle

----------------------------------------------------------------------------
(* The component from construction on *)

Init ==
  /\ selectedSport = "nfl"
  /\ searchTerm = <<>>
  /\ sortBy = "fantasy_points"
  /\ sortDirection = "desc"
  /\ selectedSeasonType = "preseason"
  /\ selectedLeagueSeason = "2025"
  /\ selectedOwner = PrettyFly
  /\ isLoading = FALSE
  /\ nhlData = <<>>
  /\ nflData = <<>>
  /\ pending = {}
  /\ issued = 0
  /\ view = <<>>
  /\ started = FALSE
  /\ lastCall = [op |-> "constructor"]
  /\ returned = <<>>
  /\ fantasyTeams = [owner \in Part002Owners |-> <<>>]
  /\ SiblingsInit

Next ==
  \/ NgOnInit
  \/ Complete
  \/ \E column \in SortColumns : Sort(column)
  \/ ToggleSortDirection
  \/ \E term \in SearchTerms : SetSearchTerm(term)
  \/ \E sport \in Sports : SetSport(sport)
  \/ \E seasonType \in SeasonTypes : SetSeasonType(seasonType)
  \/ \E leagueSeason \in LeagueSeasons : SetLeagueSeason(leagueSeason)
  \/ \E owner \in Owners : SetOwner(owner)
  \/ \E i \in 1..MaxRows : AddPlayerToTeam(i)
  \/ \E i \in 1..MaxRows : RemovePlayerFromTeam(i)
  \/ GetCurrentData
  \/ GetFantasyTeam
  \/ GetTotalFantasyPoints
  \/ \E i \in 1..MaxRows : GetWinPercentage(i)
  \/ \E ofView \in BOOLEAN : GetTotalGames(ofView)
  \/ \E ofView \in BOOLEAN : GetTotalGoals(ofView)

Spec == Init /\ [][Next]_vars

----------------------------------------------------------------------------
(* The component driven through its load interface only: construction,     *)
(* ngOnInit, the three selectors that start a load, and the responses.     *)

LoadNext ==
  \/ NgOnInit
  \/ Complete
  \/ \E sport \in Sports : SetSport(sport)
  \/ \E seasonType \in SeasonTypes : SetSeasonType(seasonType)
  \/ \E leagueSeason \in LeagueSeasons : SetLeagueSeason(leagueSeason)

LoadSpec == Init /\ [][LoadNext]_vars

\* every response the http client owes is delivered: a subscribed request
\* completes, with a body or with an error
LiveLoadSpec == LoadSpec /\ WF_vars(Complete)

----------------------------------------------------------------------------
(* Reloading: the component from construction on, switched between the two *)
(* sports and between the season types while responses are outstanding,    *)
(* with the add button changing loaded players between two loads.          *)

ReloadNext ==
  \/ NgOnInit
  \/ Complete
  \/ \E sport \in {"nhl", "nfl"} : SetSport(sport)
  \/ \E seasonType \in SeasonTypes : SetSeasonType(seasonType)
  \/ \E i \in 1..MaxFetchRows : AddPlayerToTeam(i)

ReloadSpec == Init /\ [][ReloadNext]_vars

----------------------------------------------------------------------------
(* Switching: the component after ngOnInit's load has been answered,       *)
(* switched between the sports and the seasons while the search box,       *)
(* the direction toggle and the owner selector are used; the responses to  *)
(* the loads the switches start are still outstanding.                     *)

SwitchInit ==
  /\ selectedSport = "nfl"
  /\ searchTerm = <<>>
  /\ sortBy = "fantasy_points"
  /\ sortDirection = "desc"
  /\ selectedSeasonType = "preseason"
  /\ selectedLeagueSeason = "2025"
  /\ selectedOwner = PrettyFly
  /\ isLoading = FALSE
  /\ nhlData = <<>>
  /\ nflData \in {MapRows("nfl", body) : body \in NFLResponses}
  /\ pending = {}
  /\ issued = 1
  /\ view = <<>>
  /\ started = TRUE
  /\ lastCall = [op |-> "next", kind |-> "nfl", before |-> <<>>, body |-> nflData,
                 late |-> FALSE]
  /\ returned = <<>>
  /\ fantasyTeams = [owner \in Part002Owners |-> <<>>]
  /\ SiblingsInit

SwitchNext ==
  \/ \E sport \in Sports : SetSport(sport)
  \/ \E seasonType \in SeasonTypes : SetSeasonType(seasonType)
  \/ \E leagueSeason \in LeagueSeasons : SetLeagueSeason(leagueSeason)
  \/ \E term \in SearchTerms : SetSearchTerm(term)
  \/ \E owner \in Owners : SetOwner(owner)
  \/ ToggleSortDirection

SwitchSpec == SwitchInit /\ [][SwitchNext]_vars

----------------------------------------------------------------------------
(* Loading from a server that sends numbers as strings: the component from *)
(* construction on, switched between the two sports, with responses whose  *)
(* rows carry their numeric fields as numbers or as strings of digits.     *)

TextLoadNext ==
  \/ NgOnInit
  \/ CompleteAsText
  \/ \E sport \in {"nhl", "nfl"} : SetSport(sport)

TextLoadSpec == Init /\ [][TextLoadNext]_vars

----------------------------------------------------------------------------
(* The view functions on every snapshot: the component after its loads     *)
(* have completed, holding any snapshot of at most MaxRows rows for the    *)
(* selected sport, driven through the sort and search controls.            *)

NHLSnapshots == {MapRows("nhl", body) : body \in SeqsUpTo(NHLPool, MaxRows)}
NFLSnapshots == {MapRows("nfl", body) : body \in SeqsUpTo(NFLPool, MaxRows)}

ViewInit ==
  /\ selectedSport \in {"nhl", "nfl"}
  /\ searchTerm = <<>>
  /\ sortBy = IF selectedSport = "nfl" THEN "fantasy_points" ELSE "total_goals"
  /\ sortDirection = "desc"
  /\ selectedSeasonType = "preseason"
  /\ selectedLeagueSeason = "2025"
  /\ selectedOwner = PrettyFly
  /\ isLoading = FALSE
  /\ IF selectedSport = "nhl"
     THEN nhlData \in NHLSnapshots /\ nflData = <<>> /\ issued = 2
     ELSE nflData \in NFLSnapshots /\ nhlData = <<>> /\ issued = 1
  /\ pending = {}
  /\ view = <<>>
  /\ started = TRUE
  /\ lastCall = [op |-> "next", kind |-> selectedSport, before |-> <<>>,
                 body |-> IF selectedSport = "nhl" THEN nhlData ELSE nflData,
                 late |-> FALSE]
  /\ returned = <<>>
  /\ fantasyTeams = [owner \in Part002Owners |-> <<>>]
  /\ SiblingsInit

ViewNext ==
  \/ \E column \in SortColumns : Sort(column)
  \/ ToggleSortDirection
  \/ \E term \in SearchTerms : SetSearchTerm(term)
  \/ GetCurrentData

ViewSpec == ViewInit /\ [][ViewNext]_vars

----------------------------------------------------------------------------
(* The rosters: the component after a player load has completed, holding   *)
(* any snapshot of at most MaxRosterRows players, some of them delivered   *)
(* with an owner, driven through the owner selector, the add and remove    *)
(* buttons, the search box and the direction toggle.                       *)

RosterSnapshotsOf(pool) == {MapRows("nfl", body) : body \in SeqsUpTo(pool, MaxRosterRows)}

RosterSnapshots == RosterSnapshotsOf(NFLPool)

RosterInit ==
  /\ selectedSport = "nfl"
  /\ searchTerm = <<>>
  /\ sortBy = "fantasy_points"
  /\ sortDirection = "desc"
  /\ selectedSeasonType = "preseason"
  /\ selectedLeagueSeason = "2025"
  /\ selectedOwner = PrettyFly
  /\ isLoading = FALSE
  /\ nhlData = <<>>
  /\ nflData \in RosterSnapshots
  /\ pending = {}
  /\ issued = 1
  /\ view = <<>>
  /\ started = TRUE
  /\ lastCall = [op |-> "next", kind |-> "nfl", before |-> <<>>, body |-> nflData,
                 late |-> FALSE]
  /\ returned = <<>>
  /\ fantasyTeams = [owner \in Part002Owners |-> <<>>]
  /\ SiblingsInit

RosterNext ==
  \/ \E owner \in Owners : SetOwner(owner)
  \/ \E i \in 1..MaxRosterRows : AddPlayerToTeam(i)
  \/ \E i \in 1..MaxRosterRows : RemovePlayerFromTeam(i)
  \/ \E term \in SearchTerms : SetSearchTerm(term)
  \/ ToggleSortDirection
  \/ GetFantasyTeam
  \/ GetTotalFantasyPoints

RosterSpec == RosterInit /\ [][RosterNext]_vars

----------------------------------------------------------------------------
(* The team statistics: the component after a team load has completed,     *)
(* holding either a snapshot of at most MaxRows team rows or one team row  *)
(* with any games_count, wins, losses and yet_to_play up to MaxGames,      *)
(* driven through the search box and asked for totals and win percentages. *)

StatRows ==
  {NHLGame(<<"B", "o", "s", "t", "o", "n">>, games_count, wins, losses, yet_to_play, wins) :
     games_count \in 0..MaxGames, wins \in 0..MaxGames, losses \in 0..MaxGames,
     yet_to_play \in 0..MaxGames}

StatsSnapshots == NHLSnapshots \cup {MapRows("nhl", <<row>>) : row \in StatRows}

StatsInit ==
  /\ selectedSport = "nhl"
  /\ searchTerm = <<>>
  /\ sortBy = "total_goals"
  /\ sortDirection = "desc"
  /\ selectedSeasonType = "preseason"
  /\ selectedLeagueSeason = "2025"
  /\ selectedOwner = PrettyFly
  /\ isLoading = FALSE
  /\ nhlData \in StatsSnapshots
  /\ nflData = <<>>
  /\ pending = {}
  /\ issued = 2
  /\ view = <<>>
  /\ started = TRUE
  /\ lastCall = [op |-> "next", kind |-> "nhl", before |-> <<>>, body |-> nhlData,
                 late |-> FALSE]
  /\ returned = <<>>
  /\ fantasyTeams = [owner \in Part002Owners |-> <<>>]
  /\ SiblingsInit

StatsNext ==
  \/ \E term \in SearchTerms : SetSearchTerm(term)
  \/ \E i \in 1..MaxRows : GetWinPercentage(i)
  \/ \E ofView \in BOOLEAN : GetTotalGames(ofView)
  \/ \E ofView \in BOOLEAN : GetTotalGoals(ofView)

StatsSpec == StatsInit /\ [][StatsNext]_vars

----------------------------------------------------------------------------
(* Both components side by side: each holds the same snapshot of at most   *)
(* MaxRosterRows players whose names are all different, none of them       *)
(* delivered with an owner, and each is given the same calls.              *)

UnownedPool == [i \in 1..Len(NFLPool) |-> WithoutOwner(NFLPool[i])]

BothSnapshots ==
  {rows \in RosterSnapshotsOf(UnownedPool) :
     \A i, j \in 1..Len(rows) : i # j => rows[i].name # rows[j].name}

BothInit ==
  /\ selectedSport = "nfl"
  /\ searchTerm = <<>>
  /\ sortBy = "fantasy_points"
  /\ sortDirection = "desc"
  /\ selectedSeasonType = "preseason"
  /\ selectedLeagueSeason = "2025"
  /\ selectedOwner = PrettyFly
  /\ isLoading = FALSE
  /\ nhlData = <<>>
  /\ nflData \in BothSnapshots
  /\ pending = {}
  /\ issued = 1
  /\ view = <<>>
  /\ started = TRUE
  /\ lastCall = [op |-> "next", kind |-> "nfl", before |-> <<>>, body |-> nflData,
                 late |-> FALSE]
  /\ returned = <<>>
  /\ fantasyTeams = [owner \in Part002Owners |-> <<>>]
  /\ SiblingsInit

BothNext ==
  \/ \E owner \in Owners : SetOwner(owner)
  \/ \E i \in 1..MaxRosterRows : AddPlayerToTeamOfBoth(i)
  \/ \E i \in 1..MaxRosterRows : RemovePlayerFromTeamOfBoth(i)

BothSpec == BothInit /\ [][BothNext]_vars

----------------------------------------------------------------------------
(* The dialog: FantasyTeamComponent from construction on, opened and       *)
(* closed in any order.                                                    *)

DialogNext ==
  \/ ShowPoopDialog
  \/ CloseDialog

DialogSpec == Init /\ [][DialogNext]_vars

----------------------------------------------------------------------------
(* The seeding: one run of the script on a table that holds rows of        *)
(* earlier runs, with every awaited call free to fail.                     *)

SeedInit ==
  /\ selectedSport = "nfl"
  /\ searchTerm = <<>>
  /\ sortBy = "fantasy_points"
  /\ sortDirection = "desc"
  /\ selectedSeasonType = "preseason"
  /\ selectedLeagueSeason = "2025"
  /\ selectedOwner = PrettyFly
  /\ isLoading = FALSE
  /\ nhlData = <<>>
  /\ nflData = <<>>
  /\ pending = {}
  /\ issued = 0
  /\ view = <<>>
  /\ started = FALSE
  /\ lastCall = [op |-> "constructor"]
  /\ returned = <<>>
  /\ fantasyTeams = [owner \in Part002Owners |-> <<>>]
  /\ DraftBoardConstructed
  /\ FantasyTeamConstructed
  /\ sleeper_rosters \in SUBSET EarlierRows
  /\ rosters = <<>>
  /\ seedAt = "fetch"
  /\ cursor = 0
  /\ serial = Cardinality(EarlierRows)
  /\ exitCode = -1
  /\ deleted = {}

SeedNext ==
  \/ FetchRosterData
  \/ CreateSchema
  \/ DeleteLeagueRows
  \/ InsertRoster
  \/ CountRows
  \/ SeedFails

SeedSpec == SeedInit /\ [][SeedNext]_vars

----------------------------------------------------------------------------
(* The draft board: DraftBoardComponent given a player snapshot as its     *)
(* nflData input, either a short one or one about as long as the slice of  *)
(* getAvailablePlayers, while the parent assigns and releases players.     *)

\* row i of a long input: row 1 is owned and has the most points, row 2 is
\* a running back, all other rows are quarterbacks
LongRow(i) ==
  LET player == NFLPlayer(<<"p">> \o DigitsOf(i), <<"D", "A", "L">>,
                          IF i = 2 THEN <<"R", "B">> ELSE <<"Q", "B">>,
                          IF i = 1 THEN 99 ELSE (i * 7) % 13)
  IN  IF i = 1 THEN WithOwner(player, Team610jason) ELSE player

LongSnapshots ==
  {[i \in 1..(AvailableLimit + excess) |-> LongRow(i)] : excess \in 0..MaxExcess}

ShortSnapshots == {MapRows("nfl", body) : body \in SeqsUpTo(NFLPool, MaxFetchRows)}

DraftSnapshots == ShortSnapshots \cup LongSnapshots

DraftInit ==
  /\ selectedSport = "nfl"
  /\ searchTerm = <<>>
  /\ sortBy = "fantasy_points"
  /\ sortDirection = "desc"
  /\ selectedSeasonType = "preseason"
  /\ selectedLeagueSeason = "2025"
  /\ selectedOwner = PrettyFly
  /\ isLoading = FALSE
  /\ nhlData = <<>>
  /\ nflData \in DraftSnapshots
  /\ pending = {}
  /\ issued = 1
  /\ view = <<>>
  /\ started = TRUE
  /\ lastCall = [op |-> "next", kind |-> "nfl", before |-> <<>>, body |-> <<>>,
                 late |-> FALSE]
  /\ returned = <<>>
  /\ fantasyTeams = [owner \in Part002Owners |-> <<>>]
  /\ SiblingsInit

DraftNext ==
  \/ \E position \in Positions : SetPositionFilter(position)
  \/ GetAvailablePlayers
  \/ \E owner \in Owners : SetOwner(owner)
  \/ \E i \in 1..MaxFetchRows : AddPlayerToTeam(i)
  \/ \E i \in 1..MaxFetchRows : RemovePlayerFromTeam(i)

DraftSpec == DraftInit /\ [][DraftNext]_vars

----------------------------------------------------------------------------
(* Properties *)

\* the snapshot getCurrentData reads
CurrentSnapshot == IF selectedSport = "nhl" THEN nhlData ELSE nflData
CurrentKind == IF selectedSport = "nhl" THEN "nhl" ELSE "nfl"

\* view is what getCurrentData has just returned for the present state
ViewComputed == lastCall.op = "getCurrentData"

Range(s) == {s[i] : i \in 1..Len(s)}

\* the rows of s that satisfy Test, in the order of s
RECURSIVE Select(_, _)
Select(s, keep) ==
  IF s = <<>> THEN <<>>
  ELSE LET rest == Select(SubSeq(s, 1, Len(s) - 1), keep)
       IN  IF s[Len(s)] \in keep THEN Append(rest, s[Len(s)]) ELSE rest

\* the value a row is sorted on, and whether it has one
SortKey(row) == Get(row, sortBy)
HasSortKey(row) == TypeOf(SortKey(row)) # "undefined"

\* x is not after y: numbers by size, strings by their lower-cased characters
KeyNotAfter(x, y) ==
  IF TypeOf(x) = "number" THEN x.v <= y.v
  ELSE ~StrLess(ToLowerCase(y.v), ToLowerCase(x.v))

\* x and y compare equal for the sort
KeyEqual(x, y) ==
  \/ TypeOf(x) = "undefined" /\ TypeOf(y) = "undefined"
  \/ TypeOf(x) = "number" /\ TypeOf(y) = "number" /\ x.v = y.v
  \/ TypeOf(x) = "string" /\ TypeOf(y) = "string" /\ ToLowerCase(x.v) = ToLowerCase(y.v)

\* s contains t when upper and lower case are not told apart
ContainsIgnoringCase(s, t) ==
  \E off \in 0..Len(s) :
    /\ off + Len(t) <= Len(s)
    /\ \A k \in 1..Len(t) : LowerChar(s[off + k]) = LowerChar(t[k])

\* the fields the search reads: the team of a team row; name, team and
\* position of a player row
Searched(row) ==
  IF selectedSport = "nhl" THEN {row.team.v}
  ELSE {row.name.v, row.team.v, row.position.v}

\* C1: sort(column) with a column other than the current sortBy leaves
\* sortBy = column and sortDirection = 'desc', whatever the direction was.
C1_FreshSortStartsDescending ==
  (lastCall.op = "sort" /\ lastCall.fresh)
    => (sortBy = lastCall.column /\ sortDirection = "desc")

C1_Witness ==
  /\ lastCall.op = "sort" /\ lastCall.fresh /\ lastCall.was = "asc"
  /\ sortBy = "team" /\ sortDirection = "desc"

\* C2: sort(column) with the current sortBy flips sortDirection and leaves
\* sortBy as it was, and one more such call gives back the direction that
\* held before: the direction cycles with period 2.
C2_SameColumnFlipsWithPeriodTwo ==
  (lastCall.op = "sort" /\ ~lastCall.fresh)
    => /\ sortBy = lastCall.column
       /\ sortDirection # lastCall.was
       /\ SortState(sortBy, sortBy, sortDirection) =
            [sortBy |-> sortBy, sortDirection |-> lastCall.was]

C2_Witness ==
  /\ lastCall.op = "sort" /\ ~lastCall.fresh /\ lastCall.was = "asc"
  /\ sortBy = "fantasy_points" /\ sortDirection = "desc"

C4_LoadingEventuallyEnds == isLoading ~> ~isLoading

\* C5: in the sorted view every record without a value for the sort field
\* comes after every record with one, for 'asc' and for 'desc', in the team
\* view and in the player view.
C5_UndefinedSortsLast ==
  ViewComputed
    => \A i \in 1..Len(view) : \A j \in 1..Len(view) :
         (~HasSortKey(view[i]) /\ HasSortKey(view[j])) => j < i

C5_Witness ==
  /\ ViewComputed /\ selectedSport = "nfl"
  /\ sortBy = "fantasy_team_owner" /\ sortDirection = "asc"
  /\ Len(nflData) = 3 /\ ~HasSortKey(nflData[1]) /\ HasSortKey(nflData[3])
  /\ Len(view) = 3 /\ ~HasSortKey(view[3]) /\ HasSortKey(view[1])

\* C6: when every row of the view has a value for the sort field, the view is
\* ordered by it, non-decreasing for 'asc' and non-increasing for 'desc',
\* numbers by size and strings lower-cased; points 10, 30, 20 come out as
\* 30, 20, 10 descending and 10, 20, 30 ascending.
C6_ViewIsOrdered ==
  ViewComputed
    => /\ (\A i \in 1..Len(view) : HasSortKey(view[i]))
            => \A i \in 1..Len(view) : \A j \in 1..Len(view) :
                 i < j => IF sortDirection = "asc"
                          THEN KeyNotAfter(SortKey(view[i]), SortKey(view[j]))
                          ELSE KeyNotAfter(SortKey(view[j]), SortKey(view[i]))
       /\ (/\ selectedSport = "nfl" /\ sortBy = "fantasy_points" /\ searchTerm = <<>>
           /\ [i \in 1..Len(nflData) |-> nflData[i].fantasy_points.v] = <<10, 30, 20>>)
            => [i \in 1..Len(view) |-> view[i].fantasy_points.v] =
                 IF sortDirection = "desc" THEN <<30, 20, 10>> ELSE <<10, 20, 30>>

C6_Witness ==
  /\ ViewComputed /\ selectedSport = "nfl" /\ searchTerm = <<>>
  /\ sortBy = "name" /\ sortDirection = "desc"
  /\ [i \in 1..Len(nflData) |-> nflData[i].name.v] = <<<<"a", "d", "a", "m", "s">>, <<"B", "r", "o", "w", "n">>, <<"C", "o", "l", "e">>>>
  /\ [i \in 1..Len(view) |-> view[i].name.v] = <<<<"C", "o", "l", "e">>, <<"B", "r", "o", "w", "n">>, <<"a", "d", "a", "m", "s">>>>

\* C7: the sort is stable: the records of the view whose sort values compare
\* equal stand in the order they have in the stored snapshot, in both
\* directions.
C7_SortIsStable ==
  ViewComputed
    => \A i \in 1..Len(view) :
         LET tied(s) == {r \in Range(s) : KeyEqual(SortKey(r), SortKey(view[i]))}
             shown == Select(CurrentSnapshot, Range(view))
         IN  Select(view, tied(view)) = Select(shown, tied(shown))

C7_Witness ==
  /\ ViewComputed /\ selectedSport = "nfl" /\ searchTerm = <<>>
  /\ sortBy = "team" /\ sortDirection = "asc"
  /\ [i \in 1..Len(nflData) |-> nflData[i].team.v] = <<<<"b", "o", "s">>, <<"D", "A", "L">>, <<"B", "O", "S">>>>
  /\ [i \in 1..Len(view) |-> view[i].team.v] = <<<<"b", "o", "s">>, <<"B", "O", "S">>, <<"D", "A", "L">>>>

\* C8: with a non-empty searchTerm a team record is in the view iff its team
\* contains the term ignoring case, and a player record iff its name, team or
\* position does; "bo" over Boston, Dallas, Boulder keeps Boston and Boulder.
C8_FilterKeepsExactlyTheMatches ==
  (ViewComputed /\ searchTerm # <<>>)
    => /\ \A i \in 1..Len(CurrentSnapshot) :
            (CurrentSnapshot[i] \in Range(view))
              <=> \E s \in Searched(CurrentSnapshot[i]) :
                    ContainsIgnoringCase(s, searchTerm)
       /\ (/\ selectedSport = "nhl" /\ searchTerm = <<"b", "o">>
           /\ [i \in 1..Len(nhlData) |-> nhlData[i].team.v] = <<<<"B", "o", "s", "t", "o", "n">>, <<"D", "a", "l", "l", "a", "s">>, <<"B", "o", "u", "l", "d", "e", "r">>>>)
            => {r.team.v : r \in Range(view)} = {<<"B", "o", "s", "t", "o", "n">>, <<"B", "o", "u", "l", "d", "e", "r">>}

C8_Witness ==
  /\ ViewComputed /\ selectedSport = "nfl" /\ searchTerm = <<"q", "b">>
  /\ Len(nflData) = 3 /\ Len(view) = 1 /\ view[1].position.v = <<"Q", "B">>

\* C9: filtering is monotonic: the records of the view are among those of the
\* view the same snapshot and sort state give with an empty searchTerm, and
\* that view holds every record of the snapshot.
C9_FilterIsMonotonic ==
  ViewComputed
    => LET all == GetFilteredAndSorted(CurrentKind, CurrentSnapshot, <<>>,
                                       sortBy, sortDirection).result
       IN  /\ Range(view) \subseteq Range(all)
           /\ Range(all) = Range(CurrentSnapshot)
           /\ Len(all) = Len(CurrentSnapshot)

C9_Witness ==
  /\ ViewComputed /\ selectedSport = "nhl" /\ searchTerm = <<"b", "o">>
  /\ Len(nhlData) = 3 /\ Len(view) = 2

\* C10: computing the view leaves the stored snapshots as they were, the same
\* records in the same order.
C10_ViewLeavesTheSnapshot ==
  [][GetCurrentData => (nhlData' = nhlData /\ nflData' = nflData)]_vars

C10_Witness ==
  /\ ViewComputed /\ selectedSport = "nhl" /\ searchTerm = <<>>
  /\ Len(view) = 3 /\ view # nhlData
  /\ [i \in 1..Len(nhlData) |-> nhlData[i].team.v] = <<<<"D", "a", "l", "l", "a", "s">>, <<"B", "o", "s", "t", "o", "n">>, <<"B", "o", "u", "l", "d", "e", "r">>>>

\* C11: the view is idempotent: a call of getCurrentData that follows another
\* call of getCurrentData, with no other call in between, returns the same
\* rows in the same order as the call before it
C11_ViewIsIdempotent ==
  (ViewComputed /\ lastCall.again) => view = lastCall.previous

\* a second call in a row has returned three rows in an order that is not
\* the snapshot's, two of which compare equal on the sort column
C11_Witness ==
  /\ ViewComputed
  /\ lastCall.again
  /\ Len(view) = 3
  /\ view # CurrentSnapshot
  /\ \E i, j \in 1..3 :
       i # j /\ view[i] # view[j] /\ KeyEqual(SortKey(view[i]), SortKey(view[j]))

\* the owner a player row carries, undefined when it carries none
OwnerOf(player) == Get(player, "fantasy_team_owner")

\* rows after differ from rows before at most in the owner of row i
OnlyOwnerOfRowMayDiffer(before, after, i) ==
  /\ Len(after) = Len(before)
  /\ \A j \in 1..Len(before) : j # i => after[j] = before[j]
  /\ \A key \in (DOMAIN before[i]) \ {"fantasy_team_owner"} :
       key \in DOMAIN after[i] /\ after[i][key] = before[i][key]
  /\ (DOMAIN after[i]) \ {"fantasy_team_owner"} \subseteq DOMAIN before[i]

\* C12: addPlayerToTeam gives the player the selected owner when the player
\* has no owner and changes nothing else; when the player already has an
\* owner, the selected one or another, the call changes no player at all
C12_AddAssignsOnlyTheUnowned ==
  [][\A i \in 1..Len(nflData) :
       AddPlayerToTeam(i) =>
         /\ selectedOwner' = selectedOwner
         /\ IF TypeOf(OwnerOf(nflData[i])) = "undefined"
            THEN /\ OwnerOf(nflData'[i]) = Str(selectedOwner)
                 /\ OnlyOwnerOfRowMayDiffer(nflData, nflData', i)
            ELSE nflData' = nflData]_vars

\* a player held by one owner was added by another selected owner, who also
\* holds a player, and is still held by the first
C12_Witness ==
  /\ lastCall.op = "addPlayerToTeam"
  /\ TypeOf(lastCall.was) = "string"
  /\ lastCall.was # Str(selectedOwner)
  /\ OwnerOf(nflData[lastCall.player]) = lastCall.was
  /\ \E j \in 1..Len(nflData) : OwnerOf(nflData[j]) = Str(selectedOwner)

\* C13: removePlayerFromTeam clears the owner of the player when that owner
\* is the selected owner and changes nothing else; for a player of another
\* owner or of none, the call changes no player at all
C13_RemoveReleasesOnlyOwnPlayers ==
  [][\A i \in 1..Len(nflData) :
       RemovePlayerFromTeam(i) =>
         /\ selectedOwner' = selectedOwner
         /\ IF OwnerOf(nflData[i]) = Str(selectedOwner)
            THEN /\ TypeOf(OwnerOf(nflData'[i])) = "undefined"
                 /\ OnlyOwnerOfRowMayDiffer(nflData, nflData', i)
            ELSE nflData' = nflData]_vars

\* the selected owner removed a player of its own, which now has no owner,
\* while another player keeps the owner it has
C13_Witness ==
  /\ lastCall.op = "removePlayerFromTeam"
  /\ lastCall.was = Str(selectedOwner)
  /\ TypeOf(OwnerOf(nflData[lastCall.player])) = "undefined"
  /\ \E j \in 1..Len(nflData) : TypeOf(OwnerOf(nflData[j])) = "string"

\* the names of the players an owner holds: on the component that keeps the
\* owner on the player, and on the one that keeps an array per owner
NamesHeldBy(owner) ==
  {nflData[i].name.v : i \in {j \in 1..Len(nflData) : OwnerOf(nflData[j]) = Str(owner)}}

Part002NamesHeldBy(key) ==
  {fantasyTeams[key][k].name.v : k \in 1..Len(fantasyTeams[key])}

\* C14: assignment is exclusive: after any sequence of setOwner,
\* addPlayerToTeam and removePlayerFromTeam calls no player name is held by
\* two different owners, whichever way the component keeps the rosters
C14_AssignmentIsExclusive ==
  \A a, b \in 1..Len(OwnerValues) :
    a # b =>
      /\ NamesHeldBy(OwnerValues[a]) \cap NamesHeldBy(OwnerValues[b]) = {}
      /\ Part002NamesHeldBy(OwnerKeys[a]) \cap Part002NamesHeldBy(OwnerKeys[b]) = {}

\* C15: getFantasyTeam returns exactly the rows of the player snapshot whose
\* owner is the selected owner, in the order of the snapshot, whatever the
\* search term, the sort column and the sort direction are
C15_RosterIsTheOwnersRowsOfTheSnapshot ==
  lastCall.op = "getFantasyTeam" =>
    returned = Select(nflData, {row \in Range(nflData) : OwnerOf(row) = Str(selectedOwner)})

\* a roster of two players was returned in snapshot order, lower points
\* first, while the table sorts descending and shows only one of the two
C15_Witness ==
  /\ lastCall.op = "getFantasyTeam"
  /\ searchTerm # <<>>
  /\ sortBy = "fantasy_points"
  /\ sortDirection = "desc"
  /\ Len(returned) = 2
  /\ returned[1].fantasy_points.v < returned[2].fantasy_points.v
  /\ \E k \in 1..2 : \A field \in Searched(returned[k]) :
                        ~ContainsIgnoringCase(field, searchTerm)
  /\ \E k \in 1..2 : \E field \in Searched(returned[k]) :
                        ContainsIgnoringCase(field, searchTerm)

\* the sum of a numeric field over the rows of s at the positions in S
RECURSIVE SumAt(_, _, _)
SumAt(s, key, S) ==
  IF S = {} THEN 0
  ELSE LET i == CHOOSE j \in S : TRUE
       IN  s[i][key].v + SumAt(s, key, S \ {i})

\* C19: getTotalFantasyPoints returns the sum of fantasy_points over exactly
\* the players of the snapshot whose owner is the selected owner: players
\* of other owners and of none add nothing, and an empty roster gives 0
C19_TotalIsTheSumOverTheRoster ==
  lastCall.op = "getTotalFantasyPoints" =>
    /\ returned = Num(SumAt(nflData, "fantasy_points",
                            {i \in 1..Len(nflData) : OwnerOf(nflData[i]) = Str(selectedOwner)}))
    /\ (NamesHeldBy(selectedOwner) = {} => returned = Num(0))

\* a total above 0 was returned while the snapshot also holds a player of
\* another owner with points of its own
C19_Witness ==
  /\ lastCall.op = "getTotalFantasyPoints"
  /\ returned.v > 0
  /\ \E i \in 1..Len(nflData) :
       /\ TypeOf(OwnerOf(nflData[i])) = "string"
       /\ OwnerOf(nflData[i]) # Str(selectedOwner)
       /\ nflData[i].fantasy_points.v > 0

\* the rows of the dataset the last response was for
AnsweredSnapshot == IF lastCall.kind = "nhl" THEN nhlData ELSE nflData

C17_LastArrivalWins ==
  (lastCall.op = "next" /\ lastCall.late) => AnsweredSnapshot = lastCall.body

\* the response to an overtaken load arrived last, with a row, and no
\* request is open any more
C17_Witness ==
  /\ lastCall.op = "next"
  /\ lastCall.late
  /\ pending = {}
  /\ lastCall.body # <<>>
  /\ AnsweredSnapshot = lastCall.body

\* C18: getWinPercentage never divides by zero: it returns 0 whenever
\* games_count - yet_to_play is not above 0 (games 10, wins 5, 10 yet to
\* play gives 0) and wins / (games_count - yet_to_play) * 100 otherwise
C18_WinPercentageIsGuarded ==
  lastCall.op = "getWinPercentage" =>
    LET game == nhlData[lastCall.game]
        played == game.games_count.v - game.yet_to_play.v
    IN  /\ returned.den > 0
        /\ IF played > 0
           THEN returned.num * played = game.wins.v * 100 * returned.den
           ELSE returned.num = 0
        /\ (game.games_count.v = 10 /\ game.wins.v = 5 /\ game.yet_to_play.v = 10)
             => returned.num = 0

\* the percentage of the row with 10 games, 5 wins and 10 yet to play was
\* asked for and is 0
C18_Witness ==
  /\ lastCall.op = "getWinPercentage"
  /\ nhlData[lastCall.game].games_count.v = 10
  /\ nhlData[lastCall.game].wins.v = 5
  /\ nhlData[lastCall.game].yet_to_play.v = 10
  /\ returned = [num |-> 0, den |-> 1]

\* the positions of the team snapshot whose row passes the filter
PassingTheFilter ==
  {i \in 1..Len(nhlData) :
     searchTerm = <<>> \/ ContainsIgnoringCase(nhlData[i].team.v, searchTerm)}

\* C20: getTotalGames(data) and getTotalGoals(data) return the sums of
\* games_count and of total_goals over exactly the rows handed in, 0 for
\* none; handed the filtered view they total only the rows of the
\* snapshot that pass the filter
C20_TotalsCoverTheRowsPassedIn ==
  /\ lastCall.op = "getTotalGames" =>
       /\ returned = Num(SumAt(lastCall.data, "games_count", 1..Len(lastCall.data)))
       /\ lastCall.ofView => returned = Num(SumAt(nhlData, "games_count", PassingTheFilter))
  /\ lastCall.op = "getTotalGoals" =>
       /\ returned = Num(SumAt(lastCall.data, "total_goals", 1..Len(lastCall.data)))
       /\ lastCall.ofView => returned = Num(SumAt(nhlData, "total_goals", PassingTheFilter))

\* the goals of a filtered view were totalled: more than none and fewer
\* than the goals of the whole snapshot
C20_Witness ==
  /\ lastCall.op = "getTotalGoals"
  /\ lastCall.ofView
  /\ searchTerm # <<>>
  /\ returned.v > 0
  /\ returned.v < SumAt(nhlData, "total_goals", 1..Len(nhlData))

\* C21: toggleSortDirection flips sortDirection whatever the state and
\* changes nothing else: sortBy, searchTerm, both snapshots with the owners
\* on their players and the selectors stay; a call that follows another
\* call of it gives back the direction held before the two
C21_ToggleFlipsAndLeavesTheRest ==
  [][ToggleSortDirection =>
       /\ sortDirection' \in Directions
       /\ sortDirection' # sortDirection
       /\ lastCall.op = "toggleSortDirection" => sortDirection' = lastCall.was
       /\ UNCHANGED <<selectedSport, searchTerm, sortBy, selectedSeasonType,
                      selectedLeagueSeason, selectedOwner, isLoading, nhlData,
                      nflData, pending, view, fantasyTeams>>]_vars

\* the second of two calls in a row has run, with a search term set and a
\* player that has an owner
C21_Witness ==
  /\ lastCall.op = "toggleSortDirection"
  /\ lastCall.again
  /\ sortDirection # lastCall.was
  /\ searchTerm # <<>>
  /\ \E i \in 1..Len(nflData) : TypeOf(OwnerOf(nflData[i])) = "string"

\* the property names of the rows of a kind, the optional one included
FieldsOf(kind) ==
  IF kind = "nhl" THEN DOMAIN NHLPool[1]
  ELSE (DOMAIN NFLPool[1]) \cup {"fantasy_team_owner"}

\* C22: with sortBy a name that is no field of the rows, computing the view
\* raises no error and returns the rows that pass the filter in the order
\* of the snapshot, for both directions and for team rows and player rows
C22_UnknownColumnKeepsSnapshotOrder ==
  (ViewComputed /\ sortBy \notin FieldsOf(CurrentKind)) =>
    view = Select(CurrentSnapshot,
                  {row \in Range(CurrentSnapshot) :
                     searchTerm = <<>> \/ \E s \in Searched(row) :
                                             ContainsIgnoringCase(s, searchTerm)})

\* the player view under the team column total_goals, ascending, with a
\* search term that drops a row: two different rows in snapshot order
\* which the default sort would have exchanged
C22_Witness ==
  /\ ViewComputed
  /\ selectedSport = "nfl"
  /\ sortBy = "total_goals"
  /\ sortDirection = "asc"
  /\ searchTerm # <<>>
  /\ Len(view) = 2
  /\ Len(nflData) = 3
  /\ view[1].fantasy_points.v > view[2].fantasy_points.v

\* the fields the interfaces NHLGame and NFLPlayer declare as number
NumericFields(kind) ==
  IF kind = "nhl"
  THEN {"games_count", "wins", "losses", "yet_to_play", "total_goals"}
  ELSE {"fantasy_points", "touchdowns", "passing_yards", "rushing_yards",
        "receiving_yards", "receptions", "tackles", "sacks", "interceptions"}

\* C23: after a successful fetch every numeric field of every stored row
\* holds a number, also when the response delivered it as a string
C23_StoredNumericFieldsAreNumbers ==
  lastCall.op = "next" =>
    \A i \in 1..Len(AnsweredSnapshot) : \A key \in NumericFields(lastCall.kind) :
      TypeOf(AnsweredSnapshot[i][key]) = "number"

\* C24: isLoading is true in every state in which a request started by
\* loadData has not completed: with two loads overlapping, the arrival of
\* the first response does not end the loading state
C24_LoadingWhileAnyRequestIsOpen == pending # {} => isLoading

\* C25: setSport(sport) stores the sport, empties searchTerm, sets sortBy to
\* 'fantasy_points' for 'nfl' and to 'total_goals' for every other value,
\* starts a load (isLoading is set, and for 'nhl' and 'nfl' the dataset is
\* emptied and one request for it is issued), and leaves sortDirection,
\* selectedOwner, selectedSeasonType and selectedLeagueSeason as they were
C25_SetSportKeepsDirectionAndSelectors ==
  [][\A sport \in Sports :
       SetSport(sport) =>
         /\ selectedSport' = sport
         /\ searchTerm' = <<>>
         /\ sortBy' = (IF sport = "nfl" THEN "fantasy_points" ELSE "total_goals")
         /\ isLoading'
         /\ sport \in {"nhl", "nfl"} =>
              /\ issued' = issued + 1
              /\ \E r \in pending' : r.id = issued' /\ r.kind = sport
              /\ (IF sport = "nhl" THEN nhlData' ELSE nflData') = <<>>
         /\ UNCHANGED <<sortDirection, selectedOwner, selectedSeasonType,
                        selectedLeagueSeason>>]_vars

\* the sport was switched to 'nhl' while a search term was set, the
\* direction was ascending, the season type, the league season and the
\* owner were not the initial ones: all four are as they were
C25_Witness ==
  /\ lastCall.op = "setSport"
  /\ lastCall.term # <<>>
  /\ selectedSport = "nhl"
  /\ searchTerm = <<>>
  /\ sortBy = "total_goals"
  /\ sortDirection = "asc"
  /\ selectedSeasonType = "regular"
  /\ selectedLeagueSeason = "2024"
  /\ selectedOwner = Team610jason
  /\ isLoading
  /\ \E r \in pending : r.kind = "nhl"

\* the team row the last getWinPercentage was called on
RatedGame == nhlData[lastCall.game]

\* returned is a number from 0 to 100
WithinPercentRange == returned.num >= 0 /\ returned.num <= 100 * returned.den

\* C26 as stated: for every team row with 0 <= yet_to_play <= games_count
\* and wins + losses <= games_count, getWinPercentage returns a value
\* between 0 and 100
C26_PercentageWithinRangeOfScheduled ==
  (/\ lastCall.op = "getWinPercentage"
   /\ 0 <= RatedGame.yet_to_play.v
   /\ RatedGame.yet_to_play.v <= RatedGame.games_count.v
   /\ RatedGame.wins.v + RatedGame.losses.v <= RatedGame.games_count.v)
    => WithinPercentRange

\* C26 amended: for every team row with 0 <= yet_to_play <= games_count,
\* wins and losses not negative and wins + losses no more than the games
\* played, games_count - yet_to_play, getWinPercentage returns a value
\* between 0 and 100
C26_PercentageWithinRangeOfPlayed ==
  (/\ lastCall.op = "getWinPercentage"
   /\ 0 <= RatedGame.yet_to_play.v
   /\ RatedGame.yet_to_play.v <= RatedGame.games_count.v
   /\ RatedGame.wins.v >= 0
   /\ RatedGame.losses.v >= 0
   /\ RatedGame.wins.v + RatedGame.losses.v
        <= RatedGame.games_count.v - RatedGame.yet_to_play.v)
    => WithinPercentRange

\* a row with games played, some won and some lost, was rated strictly
\* between 0 and 100
C26_Witness ==
  /\ lastCall.op = "getWinPercentage"
  /\ RatedGame.yet_to_play.v > 0
  /\ RatedGame.yet_to_play.v < RatedGame.games_count.v
  /\ RatedGame.wins.v > 0
  /\ RatedGame.losses.v > 0
  /\ RatedGame.wins.v + RatedGame.losses.v
       <= RatedGame.games_count.v - RatedGame.yet_to_play.v
  /\ returned.num > 0
  /\ returned.num < 100 * returned.den

\* C27: the two roster implementations agree: from no assignments on, after
\* every setOwner, addPlayerToTeam and removePlayerFromTeam call given to
\* both, getFantasyTeam returns the same set of player names for every
\* owner in the component that keeps the owner on the player and in the
\* one that keeps an array per owner
C27_RosterVariantsAgree ==
  \A k \in 1..Len(OwnerValues) :
    NamesHeldBy(OwnerValues[k]) = Part002NamesHeldBy(OwnerKeys[k])

\* the rows of the input that have no owner and pass the position filter
AvailableRows ==
  {row \in Range(nflData) :
     /\ OwnerOf(row) \in {Undefined, Str(<<>>)}
     /\ positionFilter # <<>> => row.position.v = positionFilter}

\* C28: getAvailablePlayers returns only players without an owner, of the
\* chosen position when positionFilter is not empty, ordered by
\* fantasy_points non-increasing, at most 50 of them and then the 50 with
\* the highest fantasy_points; it leaves the nflData input as it was, and
\* no player it returns is in the roster of any owner
C28_AvailableAreUnownedTopFifty ==
  lastCall.op = "getAvailablePlayers" =>
    /\ Range(returned) \subseteq AvailableRows
    /\ \A k \in 1..(Len(returned) - 1) :
         returned[k].fantasy_points.v >= returned[k + 1].fantasy_points.v
    /\ Len(returned) <= AvailableLimit
    /\ Len(returned) < AvailableLimit => Range(returned) = AvailableRows
    /\ \A row \in AvailableRows \ Range(returned) :
         \A k \in 1..Len(returned) :
           row.fantasy_points.v <= returned[k].fantasy_points.v
    /\ nflData = lastCall.before
    /\ \A owner \in Owners :
         Range(returned) \cap Range(FantasyTeam(nflData, owner)) = {}

\* of more than 50 quarterbacks without an owner the 50 with the most points
\* were returned, the input holding an owned player with more points than
\* any of them and its order not being that of the points
C28_Witness ==
  /\ lastCall.op = "getAvailablePlayers"
  /\ positionFilter = <<"Q", "B">>
  /\ Len(returned) = AvailableLimit
  /\ AvailableRows \ Range(returned) # {}
  /\ \E row \in Range(nflData) :
       /\ OwnerOf(row) \in {Str(owner) : owner \in Owners}
       /\ row.fantasy_points.v > returned[1].fantasy_points.v
  /\ \E i \in 1..(Len(nflData) - 1) :
       nflData[i].fantasy_points.v < nflData[i + 1].fantasy_points.v

\* C29: after any sequence of showPoopDialog and closeDialog calls
\* showDialog is true exactly when an overlay the component created is
\* attached to document.body, at most one such overlay is attached at any
\* time, and after closeDialog none is attached
C29_DialogFlagMatchesTheOverlay ==
  /\ showDialog <=> documentBody # {}
  /\ Cardinality(documentBody) <= 1
  /\ lastCall.op = "closeDialog" => documentBody = {}

\* the rows of the league of the run
LeagueRows == {row \in sleeper_rosters : row.league_id = SeedLeague}

\* the rows the table held before the run
EarlierIds == {row.id : row \in EarlierRows}

\* the last fetched roster with the key of row
LastFetched(row) ==
  rosters[CHOOSE i \in 1..Len(rosters) :
            /\ SameKey(rosters[i], row)
            /\ \A j \in (i + 1)..Len(rosters) : ~SameKey(rosters[j], row)]

\* C30: after a run of seedDatabase without error sleeper_rosters holds for
\* the league exactly one row per fetched roster, keyed by (league_id,
\* roster_id), no key twice and no row of an earlier run; when a step fails
\* the process exits with code 1, no later roster is inserted and the rows
\* deleted at the start of the run are not restored
C30_SeedReplacesTheLeagueOrExits ==
  /\ seedAt = "done" =>
       /\ exitCode = 0
       /\ \A i \in 1..Len(rosters) : \E row \in LeagueRows : SameKey(row, rosters[i])
       /\ \A row \in LeagueRows :
            /\ \E i \in 1..Len(rosters) : SameKey(row, rosters[i])
            /\ row.owner_id = LastFetched(row).owner_id
            /\ row.id \notin EarlierIds
       /\ \A a, b \in LeagueRows : SameKey(a, b) => a = b
       /\ (\A i, j \in 1..Len(rosters) : i # j => ~SameKey(rosters[i], rosters[j]))
            => Cardinality(LeagueRows) = Len(rosters)
  /\ seedAt = "exited" =>
       /\ exitCode = 1
       /\ deleted \cap sleeper_rosters = {}
       /\ lastCall.at \in {"fetch", "schema", "delete"} =>
            /\ deleted = {}
            /\ sleeper_rosters \subseteq EarlierRows
       /\ lastCall.at \in {"insert", "count"} =>
            /\ \A i \in 1..(cursor - 1) :
                 \E row \in LeagueRows : SameKey(row, rosters[i])
            /\ \A row \in LeagueRows :
                 /\ \E i \in 1..(cursor - 1) : SameKey(row, rosters[i])
                 /\ row.id \notin EarlierIds
  /\ seedAt \notin {"done", "exited"} => exitCode = -1

\* the second of two INSERTs failed after the DELETE had removed rows of
\* the league: the table holds the first roster only
C30_Witness ==
  /\ seedAt = "exited"
  /\ lastCall.at = "insert"
  /\ Len(rosters) = 2
  /\ cursor = 2
  /\ deleted # {}
  /\ Cardinality(LeagueRows) = 1
  /\ sleeper_rosters # LeagueRows

====
